---- MODULE Spec2Model ----
(***************************************************************************)
(* A model of the epd5in79 e-paper driver (waveshare_epd/src/epd5in79.rs)  *)
(* and of the SPI transport it uses (waveshare_epd_core/spi_interface.rs). *)
(*                                                                         *)
(* The panel is scaled down.  In the source a plane row has 50 bytes, the  *)
(* slave half starts at byte 49 of the panel's row, the panel is           *)
(* 792 = 8 * (50 + 49) columns wide and 272 rows high, and a plane has     *)
(* 13600 = 50 * 272 bytes.  The model keeps these relations and takes the  *)
(* bytes per row (RowBytes) and the number of rows (Rows) as its bounds.   *)
(***************************************************************************)
EXTENDS Integers, Sequences, FiniteSets, TLC

\* ------------------------------------------------------------------------
\* Geometry
\* ------------------------------------------------------------------------

\* Bytes per row of a plane: the literal 50 in `50 * point.y` and `50 * 8`.
RowBytes == 2

\* The number of rows of the panel: the literal 272 (pub const HIGH).
Rows == 2

\* The byte column at which the slave half starts: the literal 49 in
\* `49 * 8`, one byte less than a plane row.
SlaveByte == RowBytes - 1

\* pub const WIDTH = 792, and the literal 792: the slave half's 50 bytes
\* follow the master half's first 49.
WIDTH == 8 * (SlaveByte + RowBytes)

\* Length of one plane: [u8; 13600] in the source.
BufLen == RowBytes * Rows

Byte == 0..255

\* BinaryColor (embedded-graphics): Off / On.
BinaryColor == {"Off", "On"}

\* Gray2 (embedded-graphics): the luma, 0 (BLACK) .. 3 (WHITE).
Gray2 == 0..3

Pt(px, py) == [x |-> px, y |-> py]

\* ------------------------------------------------------------------------
\* Bit helpers (u8 arithmetic)
\* ------------------------------------------------------------------------

Pow2(n) == 2 ^ n

\* value & (1 << offset) != 0
BitSet(value, offset) == (value \div Pow2(offset)) % 2 = 1

\* value | (1 << offset)
OrBit(value, offset) == IF BitSet(value, offset) THEN value ELSE value + Pow2(offset)

\* value & !(1 << offset)
ClearBit(value, offset) == IF BitSet(value, offset) THEN value - Pow2(offset) ELSE value

\* A set_binary_value that sets the bit for On and forgets to clear it
\* for Off.
set_binary_value_on_only(color, offset, value) ==
    IF color = "On" THEN OrBit(value, offset) ELSE value

\* fn set_binary_value(color, offset, value: &mut u8): the new *value.
set_binary_value(color, offset, value) ==
    IF color = "On" THEN OrBit(value, offset) ELSE ClearBit(value, offset)

\* fn set_gray_value(color, offset, bw_value, r_value): the new pair
\* <<*bw_value, *r_value>>.
set_gray_value(color, offset, bw_value, r_value) ==
    CASE color = 0 -> <<ClearBit(bw_value, offset), ClearBit(r_value, offset)>>
      [] color = 1 -> <<OrBit(bw_value, offset), ClearBit(r_value, offset)>>
      [] color = 2 -> <<ClearBit(bw_value, offset), OrBit(r_value, offset)>>
      [] color = 3 -> <<OrBit(bw_value, offset), OrBit(r_value, offset)>>

\* fn get_binary_from_value(offset, value) -> BinaryColor
get_binary_from_value(offset, value) ==
    IF BitSet(value, offset) THEN "On" ELSE "Off"

\* fn get_gray_from_values(offset, bw_value, r_value) -> Gray2
get_gray_from_values(offset, bw_value, r_value) ==
    CASE BitSet(bw_value, offset) /\ BitSet(r_value, offset) -> 3
      [] ~BitSet(bw_value, offset) /\ BitSet(r_value, offset) -> 2
      [] BitSet(bw_value, offset) /\ ~BitSet(r_value, offset) -> 1
      [] ~BitSet(bw_value, offset) /\ ~BitSet(r_value, offset) -> 0

\* An is_point_in_screen whose column bound is off by one.
is_point_in_screen_wide(point) ==
    point.x >= 0 /\ point.x <= WIDTH /\ point.y >= 0 /\ point.y < Rows

\* fn is_point_in_screen(point) -> bool
is_point_in_screen(point) ==
    point.x >= 0 /\ point.x < WIDTH /\ point.y >= 0 /\ point.y < Rows

\* ------------------------------------------------------------------------
\* Pixel access on the planes.  `e` is the Epd5in79Impl record:
\*   buffer0 (master bw, 0x24), buffer1 (slave bw, 0xa4),
\*   buffer2 (master r, 0x26),  buffer3 (slave r, 0xa6), state.
\* Planes are functions 0..BufLen-1 -> Byte.  An index outside the plane
\* (get_mut(..).unwrap() or [] panicking in the source) is recorded in
\* the field oob, which stays FALSE as long as no such access happens.
\* ------------------------------------------------------------------------

InBuf(i) == i >= 0 /\ i < BufLen

\* buf[i] (0 stands for the value of a panicking read).
At(buf, i) == IF InBuf(i) THEN buf[i] ELSE 0

\* buf with buf[i] = v (unchanged when i is outside: the source panics).
Put(buf, i, v) == IF InBuf(i) THEN [buf EXCEPT ![i] = v] ELSE buf

MasterIndex(point) == RowBytes * point.y + point.x \div 8
MasterOffset(point) == 7 - (point.x % 8)
SlaveIndex(point) == RowBytes * point.y + (point.x - SlaveByte * 8) \div 8
SlaveOffset(point) == 7 - ((point.x - SlaveByte * 8) % 8)

\* The master branch of set_binary: `if point.x < 50 * 8 { ... }`.
set_binary_master(e, point, color) ==
    IF point.x < RowBytes * 8
    THEN LET buf_index == MasterIndex(point)
             offset == MasterOffset(point)
         IN [e EXCEPT !.buffer0 = Put(@, buf_index,
                            set_binary_value(color, offset, At(@, buf_index))),
                      !.oob = @ \/ ~InBuf(buf_index)]
    ELSE e

\* A slave branch of set_binary that starts where the master half ends.
set_binary_slave_late(e, point, color) ==
    IF point.x >= RowBytes * 8
    THEN LET buf_index == SlaveIndex(point)
             offset == SlaveOffset(point)
         IN [e EXCEPT !.buffer1 = Put(@, buf_index,
                            set_binary_value(color, offset, At(@, buf_index))),
                      !.oob = @ \/ ~InBuf(buf_index)]
    ELSE e

\* The slave branch of set_binary: `if point.x >= 49 * 8 { ... }`.
set_binary_slave(e, point, color) ==
    IF point.x >= SlaveByte * 8
    THEN LET buf_index == SlaveIndex(point)
             offset == SlaveOffset(point)
         IN [e EXCEPT !.buffer1 = Put(@, buf_index,
                            set_binary_value(color, offset, At(@, buf_index))),
                      !.oob = @ \/ ~InBuf(buf_index)]
    ELSE e

\* fn set_binary(&mut self, Pixel(point, color))
set_binary(e, point, color) ==
    IF ~is_point_in_screen(point) THEN e
    ELSE set_binary_slave(set_binary_master(e, point, color), point, color)

\* Option<T>: None is the empty tuple, Some(v) the one-element tuple.
None == <<>>
Some(v) == <<v>>

\* A choice of half that reads the master half wherever it holds the column.
read_half_master_first(point) ==
    IF point.x < RowBytes * 8 THEN "master" ELSE "slave"

\* `if x < 49 * 8 { /* master */ } else { /* slave */ }` of get_binary and
\* get_gray: the half whose planes a read of `point` looks at.
read_half(point) ==
    IF point.x < SlaveByte * 8 THEN "master" ELSE "slave"

\* fn get_binary(&self, point) -> Option<BinaryColor>
get_binary(e, point) ==
    IF ~is_point_in_screen(point) THEN None
    ELSE IF read_half(point) = "master"
         THEN Some(get_binary_from_value(MasterOffset(point),
                                         At(e.buffer0, MasterIndex(point))))
         ELSE Some(get_binary_from_value(SlaveOffset(point),
                                         At(e.buffer1, SlaveIndex(point))))

\* The master branch of set_gray.
set_gray_master(e, point, color) ==
    IF point.x < RowBytes * 8
    THEN LET buf_index == MasterIndex(point)
             offset == MasterOffset(point)
             v == set_gray_value(color, offset, At(e.buffer0, buf_index),
                                 At(e.buffer2, buf_index))
         IN [e EXCEPT !.buffer0 = Put(@, buf_index, v[1]),
                      !.buffer2 = Put(@, buf_index, v[2]),
                      !.oob = @ \/ ~InBuf(buf_index)]
    ELSE e

\* A slave branch of set_gray that starts where the master half ends, so
\* the columns both halves hold are written to the master planes only.
set_gray_slave_late(e, point, color) ==
    IF point.x >= RowBytes * 8
    THEN LET buf_index == SlaveIndex(point)
             offset == SlaveOffset(point)
             v == set_gray_value(color, offset, At(e.buffer1, buf_index),
                                 At(e.buffer3, buf_index))
         IN [e EXCEPT !.buffer1 = Put(@, buf_index, v[1]),
                      !.buffer3 = Put(@, buf_index, v[2]),
                      !.oob = @ \/ ~InBuf(buf_index)]
    ELSE e

\* The slave branch of set_gray.
set_gray_slave(e, point, color) ==
    IF point.x >= SlaveByte * 8
    THEN LET buf_index == SlaveIndex(point)
             offset == SlaveOffset(point)
             v == set_gray_value(color, offset, At(e.buffer1, buf_index),
                                 At(e.buffer3, buf_index))
         IN [e EXCEPT !.buffer1 = Put(@, buf_index, v[1]),
                      !.buffer3 = Put(@, buf_index, v[2]),
                      !.oob = @ \/ ~InBuf(buf_index)]
    ELSE e

\* fn set_gray(&mut self, Pixel(point, color))
set_gray(e, point, color) ==
    IF ~is_point_in_screen(point) THEN e
    ELSE set_gray_slave(set_gray_master(e, point, color), point, color)

\* fn get_gray(&self, point) -> Option<Gray2>
get_gray(e, point) ==
    IF ~is_point_in_screen(point) THEN None
    ELSE IF read_half(point) = "master"
         THEN Some(get_gray_from_values(MasterOffset(point),
                                        At(e.buffer0, MasterIndex(point)),
                                        At(e.buffer2, MasterIndex(point))))
         ELSE Some(get_gray_from_values(SlaveOffset(point),
                                        At(e.buffer1, SlaveIndex(point)),
                                        At(e.buffer3, SlaveIndex(point))))

\* ------------------------------------------------------------------------
\* Colour remapping
\* ------------------------------------------------------------------------

\* `a` evaluated first, Body applied to its value: one statement after
\* another (the value is computed before Body is entered).
Then(a, Body(_)) == CHOOSE r \in {Body(h) : h \in {a}} : TRUE

\* The body of mapping_to_binary's loops, for the points (x, y), (x, y+1),
\* ... of column x, in the source's order; f maps Gray2 to BinaryColor.
RECURSIVE to_binary_col(_, _, _, _)
to_binary_col(e, f, x, y) ==
    IF y >= Rows THEN e
    ELSE LET point == Pt(x, y)
             color == get_gray(e, point)
         IN Then(IF color = None THEN e ELSE set_binary(e, point, f[color[1]]),
                 LAMBDA h : to_binary_col(h, f, x, y + 1))

\* `for x in 0..792 { for y in 0..272 { ... } }` from column x on.
RECURSIVE to_binary_from(_, _, _)
to_binary_from(e, f, x) ==
    IF x >= WIDTH THEN e
    ELSE Then(to_binary_col(e, f, x, 0), LAMBDA h : to_binary_from(h, f, x + 1))

\* fn mapping_to_binary(&mut self, f)
mapping_to_binary(e, f) ==
    IF e.state.color_in_buf = "Binary" THEN e
    ELSE [to_binary_from(e, f, 0) EXCEPT !.state.color_in_buf = "Binary"]

RECURSIVE to_gray2_col(_, _, _, _)
to_gray2_col(e, f, x, y) ==
    IF y >= Rows THEN e
    ELSE LET point == Pt(x, y)
             color == get_binary(e, point)
         IN Then(IF color = None THEN e ELSE set_gray(e, point, f[color[1]]),
                 LAMBDA h : to_gray2_col(h, f, x, y + 1))

RECURSIVE to_gray2_from(_, _, _)
to_gray2_from(e, f, x) ==
    IF x >= WIDTH THEN e
    ELSE Then(to_gray2_col(e, f, x, 0), LAMBDA h : to_gray2_from(h, f, x + 1))

\* A mapping_to_gray2 without the early return.
mapping_to_gray2_always(e, f) ==
    [to_gray2_from(e, f, 0) EXCEPT !.state.color_in_buf = "Gray"]

\* fn mapping_to_gray2(&mut self, f)
mapping_to_gray2(e, f) ==
    IF e.state.color_in_buf = "Gray" THEN e
    ELSE [to_gray2_from(e, f, 0) EXCEPT !.state.color_in_buf = "Gray"]

\* Epd5in79Impl::new: every plane all-ones, asleep, Binary, not initialised.
NewImpl ==
    [buffer0 |-> [i \in 0..(BufLen - 1) |-> 255],
     buffer1 |-> [i \in 0..(BufLen - 1) |-> 255],
     buffer2 |-> [i \in 0..(BufLen - 1) |-> 255],
     buffer3 |-> [i \in 0..(BufLen - 1) |-> 255],
     state |-> [power_on |-> None, color_in_buf |-> "Binary", init_for |-> None],
     oob |-> FALSE]

\* impl DrawTarget: `for pixel in pixels { self.inner.set_binary(pixel) }`;
\* pixels is a sequence of <<point, color>>.
RECURSIVE draw_binary(_, _)
draw_binary(e, pixels) ==
    IF pixels = <<>> THEN e
    ELSE Then(set_binary(e, Head(pixels)[1], Head(pixels)[2]),
              LAMBDA h : draw_binary(h, Tail(pixels)))

RECURSIVE draw_gray(_, _)
draw_gray(e, pixels) ==
    IF pixels = <<>> THEN e
    ELSE Then(set_gray(e, Head(pixels)[1], Head(pixels)[2]),
              LAMBDA h : draw_gray(h, Tail(pixels)))

\* impl From<Gray2> for BinaryColor (embedded-graphics): the upper half of
\* the luma range is On.
BinaryFromGray2 == [c \in Gray2 |-> IF c >= 2 THEN "On" ELSE "Off"]

\* impl From<BinaryColor> for Gray2 (embedded-graphics): On is WHITE, Off BLACK.
Gray2FromBinary == [c \in BinaryColor |-> IF c = "On" THEN 3 ELSE 0]

\* buffer.fill(v)
Fill(v) == [i \in 0..(BufLen - 1) |-> v]

\* ------------------------------------------------------------------------
\* Transport (SpiInterface).  `m` is the machine while one call runs:
\*   epd     the Epd5in79Impl
\*   pins    the levels last written to rst, dc, cs and pwr (TRUE = high)
\*   has_cs  whether a cs pin was configured (PinDefinition.cs_pin)
\*   log     the pin writes, bus writes, busy reads and delays of the call
\*   n       the number of pin and bus accesses made by the call
\*   failAt  the access that fails with an I/O error (0: none does)
\*   nbusy   the number of busy reads made by the call
\*   stuckAt the busy read from which on the busy line reads high
\*           (0: it always reads low)
\*   clearAt the busy read from which on it reads low again (0: never)
\*   oversleep  what the scheduler adds to every delay, in microseconds
\*   clock   microseconds elapsed since the call was entered
\*   busy    the value of the latest busy read
\*   err     "Ok" until the first error; every later step is then skipped,
\*           as `?` returns early
\*   tinfo   the timeout and elapsed fields of the TimeOutError, if any
\*   debug   whether debug assertions are compiled in
\*   assert_failed  whether a debug_assert!'s condition was false
\* ------------------------------------------------------------------------

OkM(m) == m.err = "Ok"

\* One fallible access to a pin or to the bus: it fails with the HAL's
\* error when it is the access chosen to fail, else it takes effect.
Access(m, ev) ==
    IF m.n + 1 = m.failAt
    THEN [m EXCEPT !.n = @ + 1, !.err = "Transport"]
    ELSE [m EXCEPT !.n = @ + 1, !.log = Append(@, ev)]

\* OutputPin::set_high / set_low on the pin `name`.
pin_write(m, name, level) ==
    IF ~OkM(m) THEN m
    ELSE LET m1 == Access(m, <<name, level>>)
         IN IF OkM(m1) THEN [m1 EXCEPT !.pins[name] = level] ELSE m1

\* SpiDevice::write(bytes); the log keeps the level of the data/command
\* line the controller samples with the bytes.
spi_write(m, bytes) ==
    IF ~OkM(m) THEN m ELSE Access(m, <<"spi", bytes, m.pins.dc>>)

\* fn set_cs(&mut self, active)
set_cs(m, active) ==
    IF m.has_cs THEN pin_write(m, "cs", active) ELSE m

\* fn is_busy(&mut self) -> Result<bool, E>: the level read is m.busy.
is_busy(m) ==
    IF ~OkM(m) THEN m
    ELSE IF m.n + 1 = m.failAt
         THEN [m EXCEPT !.n = @ + 1, !.err = "Transport"]
         ELSE LET level == /\ m.stuckAt > 0 /\ m.nbusy + 1 >= m.stuckAt
                           /\ (m.clearAt = 0 \/ m.nbusy + 1 < m.clearAt)
              IN [m EXCEPT !.n = @ + 1, !.nbusy = @ + 1, !.busy = level,
                           !.log = Append(@, <<"busy", level>>)]

\* fn set_rst_pin(&mut self, active)
set_rst_pin(m, active) == pin_write(m, "rst", active)

\* fn set_power(&mut self, on)
set_power(m, on) == pin_write(m, "pwr", on)

\* DelayStep::Us(us) and the like: the step in microseconds.
DelayUs(us) == [unit |-> "Us", n |-> us]

\* A max_one that leaves a step of zero at zero.
max_one_zero(step) == step

\* fn max_one(self) -> Self
max_one(step) == [step EXCEPT !.n = IF @ < 1 THEN 1 ELSE @]

\* fn delay(&mut self, delay): never fails; the clock advances by the step
\* plus whatever the scheduler adds (m.oversleep).
delay(m, step) ==
    IF ~OkM(m) THEN m
    ELSE [m EXCEPT !.clock = @ + step.n + m.oversleep,
                   !.log = Append(@, <<"delay", step.n>>)]

\* A loop that gives up after the first poll that still reads busy,
\* whatever time has elapsed.
wait_busy_loop_once(m, start, step, timeout) ==
    IF ~OkM(m) THEN m
    ELSE Then(is_busy(delay(m, step)),
              LAMBDA m1 : IF ~OkM(m1) \/ ~m1.busy THEN m1
                          ELSE [m1 EXCEPT !.err = "TimeOut",
                                   !.tinfo = [timeout |-> timeout,
                                              elapsed |-> m1.clock - start]])

\* The `while now.elapsed() < timeout { ... }` loop of wait_busy_timeout.
RECURSIVE wait_busy_loop(_, _, _, _)
wait_busy_loop(m, start, step, timeout) ==
    IF ~OkM(m) THEN m
    ELSE IF m.clock - start < timeout
    THEN Then(is_busy(delay(m, step)),
              LAMBDA m1 : IF OkM(m1) /\ ~m1.busy THEN m1
                          ELSE wait_busy_loop(m1, start, step, timeout))
    ELSE [m EXCEPT !.err = "TimeOut",
                   !.tinfo = [timeout |-> timeout, elapsed |-> m.clock - start]]

\* fn wait_busy_timeout(&mut self, delay, timeout) -> Result<Duration, E>
wait_busy_timeout(m, step, timeout) ==
    IF ~OkM(m) THEN m
    ELSE Then(is_busy(m),
              LAMBDA m1 : IF ~OkM(m1) \/ ~m1.busy THEN m1
                          ELSE wait_busy_loop(m1, m.clock, max_one(step), timeout))

\* A command that writes the byte before it asserts chip select.
command_late_cs(m, cmd) ==
    Then(pin_write(m, "dc", FALSE), LAMBDA m1 :
    Then(spi_write(m1, <<cmd>>), LAMBDA m2 :
    Then(set_cs(m2, TRUE), LAMBDA m3 :
    set_cs(m3, FALSE))))

\* fn command(&mut self, cmd)
command(m, cmd) ==
    Then(set_cs(m, TRUE), LAMBDA m1 :
    Then(pin_write(m1, "dc", FALSE), LAMBDA m2 :
    Then(spi_write(m2, <<cmd>>), LAMBDA m3 :
    set_cs(m3, FALSE))))

\* A chunks that hands the payload over in one piece.
chunks_whole(bytes, chunk_size) ==
    IF Len(bytes) = 0 THEN <<>> ELSE <<bytes>>

\* data.chunks(chunk_size): the payload cut into pieces of chunk_size bytes,
\* the last one possibly shorter.
RECURSIVE chunks(_, _)
chunks(bytes, chunk_size) ==
    IF Len(bytes) = 0 THEN <<>>
    ELSE IF Len(bytes) <= chunk_size THEN <<bytes>>
    ELSE <<SubSeq(bytes, 1, chunk_size)>>
         \o chunks(SubSeq(bytes, chunk_size + 1, Len(bytes)), chunk_size)

\* `for chunk in data.chunks(chunk_size) { self.spi.write(chunk)?; }`
RECURSIVE write_chunks(_, _)
write_chunks(m, cs) ==
    IF cs = <<>> THEN m
    ELSE Then(spi_write(m, Head(cs)), LAMBDA m1 : write_chunks(m1, Tail(cs)))

\* fn data(&mut self, data, chunk_size)
data(m, bytes, chunk_size) ==
    IF Len(bytes) = 0 THEN m
    ELSE LET size == IF chunk_size < 1 THEN 1 ELSE chunk_size
         IN Then(set_cs(m, TRUE), LAMBDA m1 :
            Then(pin_write(m1, "dc", TRUE), LAMBDA m2 :
            Then(write_chunks(m2, chunks(bytes, size)), LAMBDA m3 :
            set_cs(m3, FALSE))))

\* fn command_data(&mut self, cmd, data, chunk_size)
command_data(m, cmd, bytes, chunk_size) ==
    Then(command(m, cmd), LAMBDA m1 : data(m1, bytes, chunk_size))

\* ------------------------------------------------------------------------
\* The driver (Epd5in79Impl and Epd5in79<C>) on the machine m
\* ------------------------------------------------------------------------

\* The chunk size the driver passes to the transport.
ChunkSize == 4096

\* The poll step of wait_busy_without_check, in microseconds.
PollStepUs == 200

\* Its timeout, Duration::from_secs(5), in microseconds.
BusyTimeoutUs == 5000000

\* The hold time after each reset edge and the settle delay, in microseconds.
HoldUs == 200

\* static LUT_DATA: &[u8; 227]
LUT_DATA ==
    <<
      \h00, \h00, \h00, \h00, \h00, \h00, \h00,
      \h00, \h00, \h00, \h00, \h00, \h00, \h00,
      \h00, \h00, \h00, \h00, \h00, \h00, \h00,
      \h00, \h00, \h00, \h00, \h00, \h00, \h00,
      \h00, \h00, \h00, \h00, \h00, \h00, \h00,
      \h00, \h00, \h00, \h00, \h00, \h00, \h00,
      \h01, \h4A, \h00, \h00, \h00, \h01, \h00,
      \h01, \h82, \h42, \h00, \h00, \h10, \h00,
      \h01, \h8A, \h00, \h00, \h00, \h01, \h00,
      \h00, \h00, \h00, \h00, \h00, \h00, \h00,
      \h00, \h00, \h00, \h00, \h00, \h00, \h00,
      \h00, \h00, \h00, \h00, \h00, \h00, \h00,
      \h01, \h41, \h00, \h00, \h00, \h01, \h00,
      \h01, \h82, \h42, \h00, \h00, \h10, \h00,
      \h01, \h81, \h00, \h00, \h00, \h01, \h00,
      \h00, \h00, \h00, \h00, \h00, \h00, \h00,
      \h00, \h00, \h00, \h00, \h00, \h00, \h00,
      \h00, \h00, \h00, \h00, \h00, \h00, \h00,
      \h01, \h81, \h00, \h00, \h00, \h01, \h00,
      \h01, \h82, \h42, \h00, \h00, \h10, \h00,
      \h01, \h41, \h00, \h00, \h00, \h01, \h00,
      \h00, \h00, \h00, \h00, \h00, \h00, \h00,
      \h00, \h00, \h00, \h00, \h00, \h00, \h00,
      \h00, \h00, \h00, \h00, \h00, \h00, \h00,
      \h01, \h8A, \h00, \h00, \h00, \h01, \h00,
      \h01, \h82, \h42, \h00, \h00, \h10, \h00,
      \h01, \h4A, \h00, \h00, \h00, \h01, \h00,
      \h00, \h00, \h00, \h00, \h00, \h00, \h00,
      \h00, \h00, \h00, \h00, \h00, \h00, \h00,
      \h00, \h00, \h00, \h00, \h00, \h00, \h00,
      \h00, \h00, \h00, \h00, \h00, \h00, \h00,
      \h00, \h00, \h00, \h00, \h00, \h00, \h00,
      \h02, \h00, \h00
    >>

\* An assignment to a field of self.state, reached only if no `?` returned.
SetState(m, field, v) ==
    IF OkM(m) THEN [m EXCEPT !.epd.state[field] = v] ELSE m

\* buffer.as_slice(): the plane's bytes in index order.
AsSlice(buf) == [i \in 1..BufLen |-> buf[i - 1]]

\* Epd5in79State::is_deepsleep
is_deepsleep(state) == state.power_on = None

\* An is_ready_for that lost the negation of is_deepsleep.
is_ready_for_asleep(state, mode) ==
    is_deepsleep(state) /\ state.init_for = Some(mode)

\* Epd5in79State::is_ready_for
is_ready_for(state, mode) ==
    (~is_deepsleep(state)) /\ state.init_for = Some(mode)

\* Epd5in79Impl::command_data (chunk size 4096)
epd_command_data(m, cmd, bytes) == command_data(m, cmd, bytes, ChunkSize)

\* fn send_buf(&mut self, cmd)
send_buf(m, cmd) ==
    LET buf == CASE cmd = \h24 -> m.epd.buffer0
                 [] cmd = \hA4 -> m.epd.buffer1
                 [] cmd = \h26 -> m.epd.buffer2
                 [] cmd = \hA6 -> m.epd.buffer3
    IN command_data(m, cmd, AsSlice(buf), ChunkSize)

\* fn send_bufs(&mut self, cmds)
RECURSIVE send_bufs(_, _)
send_bufs(m, cmds) ==
    IF cmds = <<>> THEN m
    ELSE Then(send_buf(m, Head(cmds)), LAMBDA m1 : send_bufs(m1, Tail(cmds)))

\* fn send_bufs_all(&mut self)
send_bufs_all(m) == send_bufs(m, <<\h24, \h26, \hA4, \hA6>>)

\* A run of self.inner.command_data(cmd, data)? statements; each element
\* of list is <<cmd, data>>.
RECURSIVE command_data_list(_, _)
command_data_list(m, list) ==
    IF list = <<>> THEN m
    ELSE Then(epd_command_data(m, Head(list)[1], Head(list)[2]),
              LAMBDA m1 : command_data_list(m1, Tail(list)))

\* A deep_sleep that does not ask whether the panel is awake.
deep_sleep_unguarded(m) ==
    Then(command_data(m, \h10, <<\h03>>, ChunkSize), LAMBDA m1 :
    Then(SetState(m1, "power_on", None), LAMBDA m2 :
    Then(set_power(m2, FALSE), LAMBDA m3 :
    set_rst_pin(m3, FALSE))))

\* pub fn deep_sleep(&mut self)
deep_sleep(m) ==
    IF ~is_deepsleep(m.epd.state)
    THEN Then(command_data(m, \h10, <<\h03>>, ChunkSize), LAMBDA m1 :
         Then(SetState(m1, "power_on", None), LAMBDA m2 :
         Then(set_power(m2, FALSE), LAMBDA m3 :
         set_rst_pin(m3, FALSE))))
    ELSE m

\* fn set_address(&mut self)
set_address(m) ==
    command_data_list(m,
        << <<\h11, <<\h01>>>>,
           <<\h44, <<\h00, \h31>>>>,
           <<\h45, <<\h0F, \h01, \h00, \h00>>>>,
           <<\h4E, <<\h00>>>>,
           <<\h4F, <<\h0F, \h01>>>>,
           <<\h91, <<\h00>>>>,
           <<\hC4, <<\h31, \h00>>>>,
           <<\hC5, <<\h0F, \h01, \h00, \h00>>>>,
           <<\hCE, <<\h31>>>>,
           <<\hCF, <<\h0F, \h01>>>> >>)

\* A check_deepsleep that lets a sleeping panel through.
check_deepsleep_never(m) == m

\* Epd5in79State::check_deepsleep / Epd5in79::check_deepsleep
check_deepsleep(m) ==
    IF OkM(m) /\ is_deepsleep(m.epd.state)
    THEN [m EXCEPT !.err = "DeepSleep"] ELSE m

\* fn wait_busy_without_check(&mut self)
wait_busy_without_check(m) ==
    wait_busy_timeout(m, DelayUs(PollStepUs), BusyTimeoutUs)

\* pub fn wait_busy(&mut self)
wait_busy(m) ==
    Then(check_deepsleep(m), LAMBDA m1 : wait_busy_without_check(m1))

\* A hw_reset that records the power-on time before it waits for the
\* busy line.
hw_reset_early_stamp(m) ==
    Then(set_rst_pin(m, TRUE), LAMBDA m1 :
    Then(delay(m1, DelayUs(HoldUs)), LAMBDA m2 :
    Then(set_rst_pin(m2, FALSE), LAMBDA m3 :
    Then(delay(m3, DelayUs(HoldUs)), LAMBDA m4 :
    Then(set_rst_pin(m4, TRUE), LAMBDA m5 :
    Then(delay(m5, DelayUs(HoldUs)), LAMBDA m6 :
    Then(SetState(m6, "power_on", Some(0)), LAMBDA m7 :
    wait_busy_without_check(m7))))))))

\* fn hw_reset(&mut self); power_on holds the Instant as the time elapsed
\* since it was taken, so Instant::now() is 0.
hw_reset(m) ==
    Then(set_rst_pin(m, TRUE), LAMBDA m1 :
    Then(delay(m1, DelayUs(HoldUs)), LAMBDA m2 :
    Then(set_rst_pin(m2, FALSE), LAMBDA m3 :
    Then(delay(m3, DelayUs(HoldUs)), LAMBDA m4 :
    Then(set_rst_pin(m4, TRUE), LAMBDA m5 :
    Then(delay(m5, DelayUs(HoldUs)), LAMBDA m6 :
    Then(wait_busy_without_check(m6), LAMBDA m7 :
    SetState(m7, "power_on", Some(0)))))))))

\* fn sw_reset(&mut self)
sw_reset(m) ==
    Then(command(m, \h12), LAMBDA m1 : wait_busy_without_check(m1))

\* A power_on that cycles the hardware reset even when the panel is awake.
power_on_always_reset(m) ==
    Then(set_power(m, TRUE), LAMBDA m0 :
    Then(hw_reset(m0), LAMBDA m1 :
    Then(sw_reset(m1), LAMBDA m2 :
    SetState(m2, "init_for", None))))

\* fn power_on(&mut self)
power_on(m) ==
    Then(IF is_deepsleep(m.epd.state)
         THEN Then(set_power(m, TRUE), LAMBDA m0 : hw_reset(m0))
         ELSE m, LAMBDA m1 :
    Then(sw_reset(m1), LAMBDA m2 :
    SetState(m2, "init_for", None)))

\* debug_assert!(cond): a debug build panics when cond is false, a release
\* build goes on.
debug_assert(m, cond) ==
    IF OkM(m) /\ ~cond
    THEN [m EXCEPT !.assert_failed = TRUE,
                   !.err = IF m.debug THEN "Panic" ELSE @]
    ELSE m

\* fn load_lut(&mut self)
load_lut(m) ==
    command_data_list(m,
        << <<\h32, LUT_DATA>>,
           <<\h3F, <<\h22>>>>,
           <<\h03, <<\h17>>>>,
           <<\h04, <<\h41, \hA8, \h32>>>>,
           <<\h2C, <<\h40>>>> >>)

\* fn init_gray2(&mut self)
init_gray2(m) ==
    Then(power_on(m), LAMBDA m1 :
    Then(epd_command_data(m1, \h0C, <<\h8B, \h9C, \hA6, \h0F>>), LAMBDA m2 :
    Then(epd_command_data(m2, \h3C, <<\h81>>), LAMBDA m3 :
    Then(set_address(m3), LAMBDA m4 :
    Then(load_lut(m4), LAMBDA m5 :
    SetState(m5, "init_for", Some("Gray2")))))))

\* fn ensure_inited_gray2(&mut self)
ensure_inited_gray2(m) ==
    IF ~is_ready_for(m.epd.state, "Gray2") THEN init_gray2(m) ELSE m

\* A display_gray2 that triggers the refresh before it selects the mode.
display_gray2_trigger_first(m) ==
    Then(ensure_inited_gray2(m), LAMBDA m1 :
    Then(debug_assert(m1, m1.epd.state.color_in_buf = "Gray"), LAMBDA m2 :
    Then(send_bufs_all(m2), LAMBDA m3 :
    Then(command(m3, \h20), LAMBDA m4 :
    Then(epd_command_data(m4, \h22, <<\hCF>>), LAMBDA m5 :
    Then(delay(m5, DelayUs(HoldUs)), LAMBDA m6 :
    wait_busy(m6)))))))

\* pub fn display_gray2(&mut self)
display_gray2(m) ==
    Then(ensure_inited_gray2(m), LAMBDA m1 :
    Then(debug_assert(m1, m1.epd.state.color_in_buf = "Gray"), LAMBDA m2 :
    Then(send_bufs_all(m2), LAMBDA m3 :
    Then(epd_command_data(m3, \h22, <<\hCF>>), LAMBDA m4 :
    Then(command(m4, \h20), LAMBDA m5 :
    Then(delay(m5, DelayUs(HoldUs)), LAMBDA m6 :
    wait_busy(m6)))))))

\* fn init_binary_full(&mut self)
init_binary_full(m) ==
    Then(power_on(m), LAMBDA m1 :
    Then(set_address(m1), LAMBDA m2 :
    SetState(m2, "init_for", Some("Full"))))

\* fn ensure_inited_binary_full(&mut self)
ensure_inited_binary_full(m) ==
    Then(IF ~is_ready_for(m.epd.state, "Full")
         THEN init_binary_full(m) ELSE m, LAMBDA m1 :
    debug_assert(m1, is_ready_for(m1.epd.state, "Full")))

\* A fill that zeroes the master half's secondary plane only.
fill_secondary_master_only(m) ==
    IF OkM(m) THEN [m EXCEPT !.epd.buffer2 = Fill(0)] ELSE m

\* self.inner.buffer2.fill(0); self.inner.buffer3.fill(0);
fill_secondary(m) ==
    IF OkM(m) THEN [m EXCEPT !.epd.buffer2 = Fill(0), !.epd.buffer3 = Fill(0)]
    ELSE m

\* pub fn display_binary_full(&mut self)
display_binary_full(m) ==
    Then(ensure_inited_binary_full(m), LAMBDA m1 :
    Then(fill_secondary(m1), LAMBDA m2 :
    Then(send_bufs_all(m2), LAMBDA m3 :
    Then(epd_command_data(m3, \h22, <<\hF7>>), LAMBDA m4 :
    Then(command(m4, \h20), LAMBDA m5 :
    Then(delay(m5, DelayUs(HoldUs)), LAMBDA m6 :
    wait_busy(m6)))))))

\* An init_binary_fast that records the mode as soon as the panel is on.
init_binary_fast_early_flag(m) ==
    Then(power_on(m), LAMBDA m1 :
    Then(SetState(m1, "init_for", Some("Fast")), LAMBDA m2 :
    Then(epd_command_data(m2, \h18, <<\h80>>), LAMBDA m3 :
    Then(epd_command_data(m3, \h22, <<\hB1>>), LAMBDA m4 :
    Then(command(m4, \h20), LAMBDA m5 :
    Then(wait_busy(m5), LAMBDA m6 :
    Then(epd_command_data(m6, \h1A, <<\h64, \h00>>), LAMBDA m7 :
    Then(epd_command_data(m7, \h22, <<\h91>>), LAMBDA m8 :
    Then(command(m8, \h20), LAMBDA m9 :
    Then(wait_busy(m9), LAMBDA m10 :
    set_address(m10)))))))))))

\* fn init_binary_fast(&mut self)
init_binary_fast(m) ==
    Then(power_on(m), LAMBDA m1 :
    Then(epd_command_data(m1, \h18, <<\h80>>), LAMBDA m2 :
    Then(epd_command_data(m2, \h22, <<\hB1>>), LAMBDA m3 :
    Then(command(m3, \h20), LAMBDA m4 :
    Then(wait_busy(m4), LAMBDA m5 :
    Then(epd_command_data(m5, \h1A, <<\h64, \h00>>), LAMBDA m6 :
    Then(epd_command_data(m6, \h22, <<\h91>>), LAMBDA m7 :
    Then(command(m7, \h20), LAMBDA m8 :
    Then(wait_busy(m8), LAMBDA m9 :
    Then(set_address(m9), LAMBDA m10 :
    SetState(m10, "init_for", Some("Fast"))))))))))))

\* An ensure_inited_binary_fast that only asks whether the panel is awake.
ensure_awake_binary_fast(m) ==
    IF is_deepsleep(m.epd.state) THEN init_binary_fast(m) ELSE m

\* fn ensure_inited_binary_fast(&mut self)
ensure_inited_binary_fast(m) ==
    Then(IF ~is_ready_for(m.epd.state, "Fast")
         THEN init_binary_fast(m) ELSE m, LAMBDA m1 :
    debug_assert(m1, is_ready_for(m1.epd.state, "Fast")))

\* pub fn display_binary_fast(&mut self)
display_binary_fast(m) ==
    Then(ensure_inited_binary_fast(m), LAMBDA m1 :
    Then(fill_secondary(m1), LAMBDA m2 :
    Then(send_bufs_all(m2), LAMBDA m3 :
    Then(epd_command_data(m3, \h22, <<\hC7>>), LAMBDA m4 :
    Then(command(m4, \h20), LAMBDA m5 :
    Then(delay(m5, DelayUs(HoldUs)), LAMBDA m6 :
    wait_busy(m6)))))))

\* A copy of the master half's primary plane only.
copy_primary_master_only(m) ==
    IF OkM(m) THEN [m EXCEPT !.epd.buffer2 = m.epd.buffer0] ELSE m

\* buffer2.copy_from_slice(buffer0); buffer3.copy_from_slice(buffer1);
copy_primary(m) ==
    IF OkM(m) THEN [m EXCEPT !.epd.buffer2 = m.epd.buffer0,
                             !.epd.buffer3 = m.epd.buffer1]
    ELSE m

\* An init_binary_partial that pushes the secondary planes before it
\* copies the primary planes into them.
init_binary_partial_push_first(m) ==
    Then(power_on(m), LAMBDA m1 :
    Then(epd_command_data(m1, \h3C, <<\h80>>), LAMBDA m2 :
    Then(set_address(m2), LAMBDA m3 :
    Then(send_bufs(m3, <<\h26, \hA6>>), LAMBDA m4 :
    Then(copy_primary(m4), LAMBDA m5 :
    SetState(m5, "init_for", Some("Partial")))))))

\* fn init_binary_partial(&mut self)
init_binary_partial(m) ==
    Then(power_on(m), LAMBDA m1 :
    Then(epd_command_data(m1, \h3C, <<\h80>>), LAMBDA m2 :
    Then(set_address(m2), LAMBDA m3 :
    Then(copy_primary(m3), LAMBDA m4 :
    Then(send_bufs(m4, <<\h26, \hA6>>), LAMBDA m5 :
    SetState(m5, "init_for", Some("Partial")))))))

\* fn ensure_inited_binary_partial(&mut self)
ensure_inited_binary_partial(m) ==
    Then(IF ~is_ready_for(m.epd.state, "Partial")
         THEN init_binary_partial(m) ELSE m, LAMBDA m1 :
    debug_assert(m1, is_ready_for(m1.epd.state, "Partial")))

\* pub fn display_binary_partial(&mut self)
display_binary_partial(m) ==
    Then(ensure_inited_binary_partial(m), LAMBDA m1 :
    Then(send_bufs(m1, <<\h24, \hA4>>), LAMBDA m2 :
    Then(epd_command_data(m2, \h22, <<\hFF>>), LAMBDA m3 :
    Then(command(m3, \h20), LAMBDA m4 :
    Then(delay(m4, DelayUs(HoldUs)), LAMBDA m5 :
    wait_busy(m5))))))



\* ------------------------------------------------------------------------
\* State
\* ------------------------------------------------------------------------

VARIABLES
    epd,     \* the Epd5in79Impl: buffer0..buffer3, state
    pins,    \* the levels of the rst, dc, cs and pwr lines (TRUE = high)
    has_cs,  \* whether a cs pin is configured
    views,   \* the colours of the live Epd5in79<C> views, outermost first
    life,    \* "alive", "panicked" (a debug assertion failed), "dropped"
    build,   \* "debug" / "release" once an assertion has told them apart
    pc,      \* "idle", or "returned" right after a call
    call,    \* the call that has just returned: name, arguments, result
    pre,     \* epd as it was when that call was entered
    hist     \* a summary of the latest display or deep_sleep call before it

vars == <<epd, pins, has_cs, views, life, build, pc, call, pre, hist>>

\* The longest time since power-on that is told apart, in calls.
MaxAge == 1

\* The latest access of a call that may fail with an I/O error.
MaxFailAt == 24

\* The latest busy read of a call from which the line may stay high.
MaxStuck == 5

\* The deepest nesting of views (a view taken from a view through DerefMut).
MaxViews == 2

NoCall == [op |-> "none"]

NoHist == [op |-> "none", res |-> "Ok"]

\* What the hardware does during one call: nothing fails, the failAt-th
\* access fails, or the busy line stays high from the stuckAt-th read on.
NoFail == [failAt |-> 0, stuckAt |-> 0]

Envs ==
    {NoFail}
    \cup {[failAt |-> k, stuckAt |-> 0] : k \in 1..MaxFailAt}
    \cup {[failAt |-> 0, stuckAt |-> j] : j \in 1..MaxStuck}

\* The view a call is made through, if any.
Top == IF views = <<>> THEN None ELSE Some(views[Len(views)])

\* Time passes between two calls: the recorded Instant grows older.
Age(state) ==
    IF state.power_on = None THEN state
    ELSE [state EXCEPT !.power_on = Some(IF @[1] < MaxAge THEN @[1] + 1 ELSE @[1])]

\* The builds an assertion whose condition is `holds` can tell apart.
Builds(holds) ==
    IF holds THEN {FALSE}
    ELSE IF build = "unknown" THEN BOOLEAN ELSE {build = "debug"}

\* The machine at the entry of a call.
Machine(env, dbg) ==
    [epd |-> [epd EXCEPT !.state = Age(@)],
     pins |-> pins, has_cs |-> has_cs,
     log |-> <<>>, n |-> 0, failAt |-> env.failAt,
     nbusy |-> 0, stuckAt |-> env.stuckAt, clearAt |-> 0,
     oversleep |-> IF env.stuckAt > 0 THEN BusyTimeoutUs ELSE 0,
     clock |-> 0, busy |-> FALSE, err |-> "Ok", tinfo |-> <<>>,
     debug |-> dbg, assert_failed |-> FALSE]

\* The command bytes of a log, in order: the bus writes made while the
\* data/command line was low.
IsCmd(ev) == ev[1] = "spi" /\ ev[3] = FALSE

CmdEvents(log) == SelectSeq(log, IsCmd)

Cmds(log) == [i \in 1..Len(CmdEvents(log)) |-> CmdEvents(log)[i][2][1]]

Count(seq, v) == Cardinality({i \in 1..Len(seq) : seq[i] = v})

DisplayOps ==
    {"display_binary_full", "display_binary_fast", "display_binary_partial",
     "display_gray2"}

\* The DisplayMode a display operation needs.
ModeOf(op) ==
    CASE op = "display_binary_full" -> "Full"
      [] op = "display_binary_fast" -> "Fast"
      [] op = "display_binary_partial" -> "Partial"
      [] op = "display_gray2" -> "Gray2"

Summary(c) == [op |-> c.op, res |-> c.res]

Idle == pc = "idle" /\ life = "alive"

\* The call has run on the machine m: its effects and its record.
Commit(name, m) ==
    /\ epd' = m.epd
    /\ pins' = m.pins
    /\ call' = [op |-> name, res |-> m.err, log |-> m.log, st |-> epd.state,
                 via |-> Top, tag |-> m.epd.state.color_in_buf,
                 tinfo |-> m.tinfo]
    /\ pre' = epd
    /\ pc' = "returned"
    /\ life' = IF m.err = "Panic" THEN "panicked" ELSE life
    /\ views' = IF m.err = "Panic" THEN <<>> ELSE views
    /\ build' = IF m.assert_failed /\ build = "unknown"
                THEN (IF m.debug THEN "debug" ELSE "release") ELSE build
    /\ UNCHANGED <<has_cs, hist>>

\* epd_bin.display_binary_full()
DisplayBinaryFull(E) ==
    /\ Idle /\ Top = Some("Binary")
    /\ \E env \in E :
          Commit("display_binary_full", display_binary_full(Machine(env, FALSE)))

\* epd_bin.display_binary_fast()
DisplayBinaryFast(E) ==
    /\ Idle /\ Top = Some("Binary")
    /\ \E env \in E :
          Commit("display_binary_fast", display_binary_fast(Machine(env, FALSE)))

\* epd_bin.display_binary_partial()
DisplayBinaryPartial(E) ==
    /\ Idle /\ Top = Some("Binary")
    /\ \E env \in E :
          Commit("display_binary_partial",
                 display_binary_partial(Machine(env, FALSE)))

\* epd_gray.display_gray2()
DisplayGray2(E) ==
    /\ Idle /\ Top = Some("Gray")
    /\ \E env \in E, dbg \in Builds(epd.state.color_in_buf = "Gray") :
          Commit("display_gray2", display_gray2(Machine(env, dbg)))

\* epd_impl.deep_sleep(), or through a view's DerefMut
DeepSleep(E) ==
    /\ Idle
    /\ \E env \in E : Commit("deep_sleep", deep_sleep(Machine(env, FALSE)))

\* view.wait_busy()
WaitBusy(E) ==
    /\ Idle /\ views # <<>>
    /\ \E env \in E : Commit("wait_busy", wait_busy(Machine(env, FALSE)))

\* pub fn power_on_dur(&self) -> Option<Duration>: the elapsed time is the
\* age held in power_on.
power_on_dur(e) == e.state.power_on

\* view.draw_iter(pixels) on a binary view
DrawIterBinary(Figs) ==
    /\ Idle /\ Top = Some("Binary")
    /\ \E fig \in Figs, dbg \in Builds(epd.state.color_in_buf = "Binary") :
          LET holds == epd.state.color_in_buf = "Binary"
              panic == ~holds /\ dbg
          IN /\ epd' = IF panic THEN epd ELSE draw_binary(epd, fig)
             /\ call' = [op |-> "draw_iter", res |-> IF panic THEN "Panic" ELSE "Ok",
                          pixels |-> fig, via |-> Top,
                          tag |-> epd.state.color_in_buf]
             /\ life' = IF panic THEN "panicked" ELSE life
             /\ views' = IF panic THEN <<>> ELSE views
             /\ build' = IF ~holds /\ build = "unknown"
                         THEN (IF dbg THEN "debug" ELSE "release") ELSE build
    /\ pre' = epd
    /\ pc' = "returned"
    /\ UNCHANGED <<pins, has_cs, hist>>

\* view.draw_iter(pixels) on a gray view
DrawIterGray(Figs) ==
    /\ Idle /\ Top = Some("Gray")
    /\ \E fig \in Figs, dbg \in Builds(epd.state.color_in_buf = "Gray") :
          LET holds == epd.state.color_in_buf = "Gray"
              panic == ~holds /\ dbg
          IN /\ epd' = IF panic THEN epd ELSE draw_gray(epd, fig)
             /\ call' = [op |-> "draw_iter", res |-> IF panic THEN "Panic" ELSE "Ok",
                          pixels |-> fig, via |-> Top,
                          tag |-> epd.state.color_in_buf]
             /\ life' = IF panic THEN "panicked" ELSE life
             /\ views' = IF panic THEN <<>> ELSE views
             /\ build' = IF ~holds /\ build = "unknown"
                         THEN (IF dbg THEN "debug" ELSE "release") ELSE build
    /\ pre' = epd
    /\ pc' = "returned"
    /\ UNCHANGED <<pins, has_cs, hist>>

\* view.pixel(p) on a binary view
PixelBinary(Points) ==
    /\ Idle /\ Top = Some("Binary")
    /\ \E p \in Points, dbg \in Builds(epd.state.color_in_buf = "Binary") :
          LET holds == epd.state.color_in_buf = "Binary"
              panic == ~holds /\ dbg
          IN /\ call' = [op |-> "pixel", res |-> IF panic THEN "Panic" ELSE "Ok",
                          point |-> p, via |-> Top,
                          tag |-> epd.state.color_in_buf,
                          ret |-> IF panic THEN None ELSE get_binary(epd, p)]
             /\ life' = IF panic THEN "panicked" ELSE life
             /\ views' = IF panic THEN <<>> ELSE views
             /\ build' = IF ~holds /\ build = "unknown"
                         THEN (IF dbg THEN "debug" ELSE "release") ELSE build
    /\ pre' = epd
    /\ pc' = "returned"
    /\ UNCHANGED <<epd, pins, has_cs, hist>>

\* view.pixel(p) on a gray view
PixelGray(Points) ==
    /\ Idle /\ Top = Some("Gray")
    /\ \E p \in Points, dbg \in Builds(epd.state.color_in_buf = "Gray") :
          LET holds == epd.state.color_in_buf = "Gray"
              panic == ~holds /\ dbg
          IN /\ call' = [op |-> "pixel", res |-> IF panic THEN "Panic" ELSE "Ok",
                          point |-> p, via |-> Top,
                          tag |-> epd.state.color_in_buf,
                          ret |-> IF panic THEN None ELSE get_gray(epd, p)]
             /\ life' = IF panic THEN "panicked" ELSE life
             /\ views' = IF panic THEN <<>> ELSE views
             /\ build' = IF ~holds /\ build = "unknown"
                         THEN (IF dbg THEN "debug" ELSE "release") ELSE build
    /\ pre' = epd
    /\ pc' = "returned"
    /\ UNCHANGED <<epd, pins, has_cs, hist>>

\* A drop that releases the driver without the teardown.
DropNoTeardown(E) ==
    /\ pc = "idle" /\ life \in {"alive", "panicked"} /\ views = <<>>
    /\ E # {}
    /\ call' = [op |-> "drop", res |-> "Ok", inner |-> "Ok",
                log |-> <<>>, st |-> epd.state, via |-> Top]
    /\ pre' = epd
    /\ pc' = "returned"
    /\ life' = "dropped"
    /\ UNCHANGED <<epd, pins, has_cs, views, build, hist>>

\* The driver goes out of scope (or is unwound by a panic).
DropImpl(E) ==
    /\ pc = "idle" /\ life \in {"alive", "panicked"} /\ views = <<>>
    /\ \E env \in E :
          LET m == deep_sleep(Machine(env, FALSE))
          IN /\ epd' = m.epd
             /\ pins' = m.pins
             /\ call' = [op |-> "drop", res |-> "Ok", inner |-> m.err,
                          log |-> m.log, st |-> epd.state, via |-> Top]
    /\ pre' = epd
    /\ pc' = "returned"
    /\ life' = "dropped"
    /\ UNCHANGED <<has_cs, views, build, hist>>

\* as_binary_with(f) on the driver or, through DerefMut, on the innermost
\* view, while fewer than `depth` views are live.
AsBinaryWith(F, depth) ==
    /\ Idle /\ Len(views) < depth
    /\ \E f \in F :
          /\ epd' = mapping_to_binary(epd, f)
          /\ call' = [op |-> "as_binary", f |-> f, via |-> Top]
    /\ views' = Append(views, "Binary")
    /\ pre' = epd
    /\ pc' = "returned"
    /\ UNCHANGED <<pins, has_cs, life, build, hist>>

\* as_gray2_with(f), likewise
AsGray2With(F, depth) ==
    /\ Idle /\ Len(views) < depth
    /\ \E f \in F :
          /\ epd' = mapping_to_gray2(epd, f)
          /\ call' = [op |-> "as_gray2", f |-> f, via |-> Top]
    /\ views' = Append(views, "Gray")
    /\ pre' = epd
    /\ pc' = "returned"
    /\ UNCHANGED <<pins, has_cs, life, build, hist>>

\* The innermost view is dropped.
DropView ==
    /\ Idle /\ views # <<>>
    /\ views' = SubSeq(views, 1, Len(views) - 1)
    /\ call' = [op |-> "drop_view", via |-> Top]
    /\ pre' = epd
    /\ pc' = "returned"
    /\ UNCHANGED <<epd, pins, has_cs, life, build, hist>>

HistOps == DisplayOps \cup {"deep_sleep"}

\* Control is back with the caller; the call's record is summarised if
\* the history is tracked.
Return(track) ==
    /\ pc = "returned"
    /\ pc' = "idle"
    /\ hist' = IF track /\ call.op \in HistOps THEN Summary(call) ELSE hist
    /\ call' = NoCall
    /\ pre' = <<>>
    /\ UNCHANGED <<epd, pins, has_cs, views, life, build>>

\* ------------------------------------------------------------------------
\* Spec: the life cycle of one driver, with hardware failures
\* ------------------------------------------------------------------------

LowPins == [rst |-> FALSE, dc |-> FALSE, cs |-> FALSE, pwr |-> FALSE]

Init ==
    /\ epd = NewImpl
    /\ pins = LowPins
    /\ has_cs = FALSE
    /\ views = <<>>
    /\ life = "alive"
    /\ build = "unknown"
    /\ pc = "idle"
    /\ call = NoCall
    /\ pre = <<>>
    /\ hist = NoHist

Next ==
    \/ DisplayBinaryFull(Envs)
    \/ DisplayBinaryFast(Envs)
    \/ DisplayBinaryPartial(Envs)
    \/ DisplayGray2(Envs)
    \/ DeepSleep(Envs)
    \/ WaitBusy(Envs)
    \/ DropImpl(Envs)
    \/ AsBinaryWith({BinaryFromGray2}, 1)
    \/ AsGray2With({Gray2FromBinary}, 1)
    \/ DropView
    \/ Return(TRUE)

Spec == Init /\ [][Next]_vars

\* ------------------------------------------------------------------------
\* SpecFb: colour views, nested through DerefMut, drawing and reading
\* ------------------------------------------------------------------------

\* The first column the slave planes hold.
SlaveCol == SlaveByte * 8

\* A line of Off pixels across the master part, the shared band and the
\* slave part, with a pixel outside the screen.
LinePixels ==
    << <<Pt(0, 0), "Off">>, <<Pt(7, 0), "Off">>,
       <<Pt(SlaveCol - 1, 0), "Off">>, <<Pt(SlaveCol + 1, 0), "Off">>,
       <<Pt(SlaveCol + 6, Rows - 1), "Off">>,
       <<Pt(SlaveCol + 8, Rows - 1), "Off">>,
       <<Pt(WIDTH - 1, Rows - 1), "Off">>, <<Pt(WIDTH, 0), "Off">>,
       <<Pt(1, 0), "On">> >>

\* Pixels of the two middle luma levels in the same three parts.
GrayPixels ==
    << <<Pt(1, 0), 1>>, <<Pt(2, 0), 2>>, <<Pt(SlaveCol, 0), 1>>,
       <<Pt(SlaveCol + 3, 0), 2>>, <<Pt(SlaveCol + 7, Rows - 1), 2>>,
       <<Pt(SlaveCol + 9, 0), 2>>, <<Pt(WIDTH - 2, Rows - 1), 1>>,
       <<Pt(-1, 0), 3>> >>

\* The points read back.
ProbePoints == {Pt(1, 0), Pt(SlaveCol + 1, 0), Pt(WIDTH - 1, Rows - 1), Pt(0, Rows)}

NextFb ==
    \/ AsBinaryWith({BinaryFromGray2}, MaxViews)
    \/ AsGray2With({Gray2FromBinary}, MaxViews)
    \/ DropView
    \/ DrawIterBinary({LinePixels})
    \/ DrawIterGray({GrayPixels})
    \/ PixelBinary(ProbePoints)
    \/ PixelGray(ProbePoints)
    \/ DisplayBinaryFull({NoFail})
    \/ DisplayBinaryPartial({NoFail})
    \/ DisplayGray2({NoFail})
    \/ Return(FALSE)

SpecFb == Init /\ [][NextFb]_vars

\* ------------------------------------------------------------------------
\* SpecPix: one pixel operation or one remap applied to prepared planes
\* ------------------------------------------------------------------------

PixCols == -2..(WIDTH + 1)
PixRows == -2..(Rows + 1)
PixPoints == {Pt(x, y) : x \in PixCols, y \in PixRows}
ScreenPoints == {Pt(x, y) : x \in 0..(WIDTH - 1), y \in 0..(Rows - 1)}

\* Planes the driver reaches: fresh; drawn on; shown by a full refresh;
\* remapped to gray and drawn on; remapped back to binary.
SceneLine == draw_binary(NewImpl, LinePixels)
SceneFilled == [SceneLine EXCEPT !.buffer2 = Fill(0), !.buffer3 = Fill(0)]
SceneGray == draw_gray(mapping_to_gray2(SceneFilled, Gray2FromBinary), GrayPixels)
SceneBack == mapping_to_binary(SceneGray, BinaryFromGray2)
Scenes == {NewImpl, SceneLine, SceneFilled, SceneGray, SceneBack}

InitPix ==
    /\ epd \in Scenes
    /\ pins = LowPins
    /\ has_cs = FALSE
    /\ views = <<>>
    /\ life = "alive"
    /\ build = "unknown"
    /\ pc = "idle"
    /\ call = NoCall
    /\ pre = <<>>
    /\ hist = NoHist

\* self.set_binary(Pixel(p, c))
PixSetBinary ==
    /\ Idle
    /\ \E p \in PixPoints, c \in BinaryColor :
          /\ epd' = set_binary(epd, p, c)
          /\ call' = [op |-> "set_binary", point |-> p, color |-> c]
    /\ pre' = epd
    /\ pc' = "returned"
    /\ UNCHANGED <<pins, has_cs, views, life, build, hist>>

\* self.set_gray(Pixel(p, c))
PixSetGray ==
    /\ Idle
    /\ \E p \in PixPoints, c \in Gray2 :
          /\ epd' = set_gray(epd, p, c)
          /\ call' = [op |-> "set_gray", point |-> p, color |-> c]
    /\ pre' = epd
    /\ pc' = "returned"
    /\ UNCHANGED <<pins, has_cs, views, life, build, hist>>

\* self.get_binary(p)
PixGetBinary ==
    /\ Idle
    /\ \E p \in PixPoints :
          call' = [op |-> "get_binary", point |-> p, ret |-> get_binary(epd, p),
                   half |-> read_half(p)]
    /\ pre' = epd
    /\ pc' = "returned"
    /\ UNCHANGED <<epd, pins, has_cs, views, life, build, hist>>

\* self.get_gray(p)
PixGetGray ==
    /\ Idle
    /\ \E p \in PixPoints :
          call' = [op |-> "get_gray", point |-> p, ret |-> get_gray(epd, p),
                   half |-> read_half(p)]
    /\ pre' = epd
    /\ pc' = "returned"
    /\ UNCHANGED <<epd, pins, has_cs, views, life, build, hist>>

NextPix ==
    \/ PixSetBinary
    \/ PixSetGray
    \/ PixGetBinary
    \/ PixGetGray
    \/ AsBinaryWith([Gray2 -> BinaryColor], 1)
    \/ AsGray2With([BinaryColor -> Gray2], 1)

SpecPix == InitPix /\ [][NextPix]_vars

\* ------------------------------------------------------------------------
\* Properties
\* ------------------------------------------------------------------------

Returned(ops) == pc = "returned" /\ call.op \in ops

IsPrefix(a, b) == Len(a) <= Len(b) /\ a = SubSeq(b, 1, Len(a))

\* The command bytes the controller's data sheet sequence prescribes.
AddressCmds == <<\h11, \h44, \h45, \h4E, \h4F, \h91, \hC4, \hC5, \hCE, \hCF>>

InitCmds(op) ==
    CASE op = "display_binary_full" -> <<\h12>> \o AddressCmds
      [] op = "display_binary_fast" ->
            <<\h12, \h18, \h22, \h20, \h1A, \h22, \h20>> \o AddressCmds
      [] op = "display_binary_partial" ->
            <<\h12, \h3C>> \o AddressCmds \o <<\h26, \hA6>>
      [] op = "display_gray2" ->
            <<\h12, \h0C, \h3C>> \o AddressCmds \o <<\h32, \h3F, \h03, \h04, \h2C>>

PushCmds(op) ==
    IF op = "display_binary_partial" THEN <<\h24, \hA4, \h22, \h20>>
    ELSE <<\h24, \h26, \hA4, \hA6, \h22, \h20>>

\* C1: when a display operation follows a successful call of the same
\* display operation, with no deep_sleep and no other display operation in
\* between, it issues no software reset and no init command: its commands
\* are the plane pushes, 0x22 and 0x20 (a prefix of them if the hardware
\* fails), and no successful display call resets more than once.
ModeSkip ==
    /\ (Returned(DisplayOps) /\ hist.op = call.op /\ hist.res = "Ok") =>
          /\ IsPrefix(Cmds(call.log), PushCmds(call.op))
          /\ call.res = "Ok" => Cmds(call.log) = PushCmds(call.op)
    /\ (Returned(DisplayOps) /\ call.res = "Ok") =>
          Count(Cmds(call.log), \h12) <= 1

ModeSkipWitness ==
    /\ Returned({"display_gray2"})
    /\ hist.op = "display_gray2" /\ hist.res = "Ok"
    /\ call.res = "Ok"

\* C2: in every reachable state, if the panel is asleep (power_on is None)
\* then init_for is None.
AsleepImpliesNoInit ==
    is_deepsleep(epd.state) => epd.state.init_for = None

\* C3: a display operation entered while the panel is asleep or init_for
\* is not its mode issues the software reset and its mode's whole init
\* sequence first and its plane pushes and refresh trigger after it (a
\* prefix of that stream if the hardware fails), and on success leaves
\* init_for at its mode with the panel awake.
ReinitOnMismatch ==
    (Returned(DisplayOps) /\ ~is_ready_for(call.st, ModeOf(call.op))) =>
       /\ IsPrefix(Cmds(call.log), InitCmds(call.op) \o PushCmds(call.op))
       /\ call.res = "Ok" =>
             /\ Cmds(call.log) = InitCmds(call.op) \o PushCmds(call.op)
             /\ epd.state.init_for = Some(ModeOf(call.op))
             /\ ~is_deepsleep(epd.state)

ReinitWitness ==
    /\ Returned({"display_binary_fast"})
    /\ hist.op = "display_gray2" /\ hist.res = "Ok"
    /\ ~is_deepsleep(call.st)
    /\ call.st.init_for = Some("Gray2")
    /\ call.res = "Ok"

\* The accesses of a successful deep_sleep of an awake panel wired
\* without chip select: 0x10 with the payload 0x03, power off, reset low.
SleepLog ==
    << <<"dc", FALSE>>, <<"spi", <<\h10>>, FALSE>>,
       <<"dc", TRUE>>, <<"spi", <<\h03>>, TRUE>>,
       <<"pwr", FALSE>>, <<"rst", FALSE>> >>

\* C4: a deep_sleep that follows a successful deep_sleep, with no display
\* operation in between, makes no bus transfer and no pin write and
\* returns Ok; the sleep command 0x10 [0x03] is issued by a successful
\* deep_sleep of an awake panel, once.
SleepIdempotent ==
    /\ (Returned({"deep_sleep"}) /\ hist.op = "deep_sleep" /\ hist.res = "Ok") =>
          /\ call.log = <<>>
          /\ call.res = "Ok"
          /\ epd = pre
    /\ (Returned({"deep_sleep"}) /\ ~is_deepsleep(call.st) /\ call.res = "Ok") =>
          call.log = SleepLog

SleepTwiceWitness ==
    /\ Returned({"deep_sleep"})
    /\ hist.op = "deep_sleep" /\ hist.res = "Ok"
    /\ epd.state.init_for # None

\* C5: power_on_dur() is None on a fresh driver and after every
\* successful deep_sleep, Some after every successful display operation,
\* and a display operation entered with the panel awake keeps the
\* recorded power-on time (its age goes on growing).
PowerOnDur ==
    /\ power_on_dur(NewImpl) = None
    /\ (pc = "idle" /\ hist = NoHist) => power_on_dur(epd) = None
    /\ (Returned({"deep_sleep"}) /\ call.res = "Ok") => power_on_dur(epd) = None
    /\ (Returned(DisplayOps) /\ call.res = "Ok") => power_on_dur(epd) # None
    /\ (Returned(DisplayOps) /\ ~is_deepsleep(call.st)) =>
          power_on_dur(epd) = power_on_dur([state |-> Age(call.st)])

PowerOnKeptWitness ==
    /\ Returned({"display_binary_partial"})
    /\ call.st.power_on = Some(0)
    /\ call.st.init_for = Some("Full")
    /\ call.res = "Ok"

\* C6: every draw_iter, pixel and display operation made through a colour
\* view finds color_in_buf equal to that view's encoding, under every
\* sequence of view acquisitions, those made on a view through DerefMut
\* included.
TagMatchesView ==
    (Returned(DisplayOps \cup {"draw_iter", "pixel"}) /\ call.via # None) =>
       call.tag = call.via[1]

\* C7: as_gray2_with while color_in_buf is Gray, and as_binary_with while
\* it is Binary, leave the four planes and the state record as they were.
RemapNoOp ==
    /\ (Returned({"as_gray2"}) /\ pre.state.color_in_buf = "Gray") => epd = pre
    /\ (Returned({"as_binary"}) /\ pre.state.color_in_buf = "Binary") => epd = pre

RemapNoOpWitness ==
    /\ Returned({"as_gray2"})
    /\ pre.state.color_in_buf = "Gray"
    /\ get_gray(pre, Pt(1, 0)) = Some(1)
    /\ ~is_deepsleep(pre.state)

\* C8: after as_gray2_with(f) on planes tagged Binary every point of the
\* screen reads, as gray, f of what it read as binary before, and the tag
\* is Gray; after as_binary_with(f) on planes tagged Gray every point reads,
\* as binary, f of what it read as gray before, and the tag is Binary.
RemapCorrect ==
    /\ (Returned({"as_gray2"}) /\ pre.state.color_in_buf = "Binary") =>
          /\ \A p \in ScreenPoints :
                get_gray(epd, p) = Some(call.f[get_binary(pre, p)[1]])
          /\ epd.state.color_in_buf = "Gray"
    /\ (Returned({"as_binary"}) /\ pre.state.color_in_buf = "Gray") =>
          /\ \A p \in ScreenPoints :
                get_binary(epd, p) = Some(call.f[get_gray(pre, p)[1]])
          /\ epd.state.color_in_buf = "Binary"

RemapCorrectWitness ==
    /\ Returned({"as_binary"})
    /\ pre = SceneGray
    /\ call.f = [c \in Gray2 |-> IF c \in {1, 3} THEN "On" ELSE "Off"]

\* C9: for every point of the screen and every colour, get_binary after
\* set_binary returns the colour set, get_gray after set_gray returns the
\* luma set, and every other point reads as it did before the write.
RoundTrip ==
    /\ (Returned({"set_binary"}) /\ is_point_in_screen(call.point)) =>
          /\ get_binary(epd, call.point) = Some(call.color)
          /\ \A q \in ScreenPoints \ {call.point} :
                /\ get_binary(epd, q) = get_binary(pre, q)
                /\ get_gray(epd, q) = get_gray(pre, q)
    /\ (Returned({"set_gray"}) /\ is_point_in_screen(call.point)) =>
          /\ get_gray(epd, call.point) = Some(call.color)
          /\ \A q \in ScreenPoints \ {call.point} :
                /\ get_gray(epd, q) = get_gray(pre, q)
                /\ get_binary(epd, q) = get_binary(pre, q)

RoundTripWitness ==
    /\ Returned({"set_gray"})
    /\ call.point = Pt(SlaveCol + 1, Rows - 1)
    /\ call.color = 2
    /\ pre = SceneGray

\* C10: for a point outside the screen get_binary and get_gray return
\* None and set_binary and set_gray leave the four planes as they were; no
\* operation touches a plane byte outside the plane.
Clipping ==
    /\ (Returned({"get_binary", "get_gray"}) /\ ~is_point_in_screen(call.point)) =>
          call.ret = None
    /\ (Returned({"set_binary", "set_gray"}) /\ ~is_point_in_screen(call.point)) =>
          epd = pre
    /\ ~epd.oob

ClippingWitness ==
    /\ Returned({"set_binary"})
    /\ call.point = Pt(WIDTH, Rows - 1)
    /\ call.color = "Off"
    /\ pre = SceneLine

\* The bit a column has in a master plane (columns 0 .. 50 * 8 - 1 in the
\* source) and in a slave plane (columns 49 * 8 .. 791), by the index
\* arithmetic of set_binary; None where the half has no bit for the column.
MasterPath(buf, point) ==
    IF point.x >= 0 /\ point.x < RowBytes * 8
    THEN Some(BitSet(At(buf, MasterIndex(point)), MasterOffset(point)))
    ELSE None

SlavePath(buf, point) ==
    IF point.x >= SlaveCol /\ point.x < WIDTH
    THEN Some(BitSet(At(buf, SlaveIndex(point)), SlaveOffset(point)))
    ELSE None

\* The bits set_binary_value and set_gray_value store for a colour.
BwBit(color) == IF call.op = "set_binary" THEN color = "On" ELSE color \in {1, 3}
RBit(color) == color \in {2, 3}

\* A write at `point` is held by both halves, in the primary planes and,
\* for a gray write, in the secondary planes too.
StoredInBothHalves ==
    /\ MasterPath(epd.buffer0, call.point) = Some(BwBit(call.color))
    /\ SlavePath(epd.buffer1, call.point) = Some(BwBit(call.color))
    /\ call.op = "set_gray" =>
          /\ MasterPath(epd.buffer2, call.point) = Some(RBit(call.color))
          /\ SlavePath(epd.buffer3, call.point) = Some(RBit(call.color))

\* The columns both halves hold (392..399 in the source).
OverlapCols == SlaveCol..(RowBytes * 8 - 1)

\* C11 as stated: every set_binary and set_gray at a column from the one
\* before the slave half's first column (391) to the master half's last
\* (399) is stored in both halves' planes.
OverlapWriteAsStated ==
    (Returned({"set_binary", "set_gray"}) /\ is_point_in_screen(call.point)
       /\ call.point.x \in (SlaveCol - 1)..(RowBytes * 8 - 1)) =>
       StoredInBothHalves

\* C11 amended: every set_binary and set_gray at a column from the slave
\* half's first column (392) to the master half's last (399) is stored in
\* both halves' planes; a write at any other column is stored in one.
OverlapWrite ==
    (Returned({"set_binary", "set_gray"}) /\ is_point_in_screen(call.point)) =>
       /\ call.point.x \in OverlapCols => StoredInBothHalves
       /\ call.point.x < SlaveCol =>
             /\ MasterPath(epd.buffer0, call.point) = Some(BwBit(call.color))
             /\ epd.buffer1 = pre.buffer1 /\ epd.buffer3 = pre.buffer3
       /\ call.point.x >= RowBytes * 8 =>
             /\ SlavePath(epd.buffer1, call.point) = Some(BwBit(call.color))
             /\ epd.buffer0 = pre.buffer0 /\ epd.buffer2 = pre.buffer2

OverlapWriteWitness ==
    /\ Returned({"set_gray"})
    /\ call.point = Pt(SlaveCol, Rows - 1)
    /\ call.color = 2
    /\ pre = SceneLine

\* ------------------------------------------------------------------------
\* SpecShow: drawing through one view at a time, showing and sleeping,
\* on hardware that does not fail
\* ------------------------------------------------------------------------

\* Mapping functions a caller passes to as_binary_with and as_gray2_with
\* besides the default conversions.
AnyLight == [c \in Gray2 |-> IF c >= 1 THEN "On" ELSE "Off"]
MidTones == [c \in BinaryColor |-> IF c = "On" THEN 2 ELSE 1]

NextShow ==
    \/ AsBinaryWith({BinaryFromGray2, AnyLight}, 1)
    \/ AsGray2With({Gray2FromBinary, MidTones}, 1)
    \/ DropView
    \/ DrawIterBinary({LinePixels})
    \/ DrawIterGray({GrayPixels})
    \/ DisplayBinaryFull({NoFail})
    \/ DisplayBinaryFast({NoFail})
    \/ DisplayBinaryPartial({NoFail})
    \/ DisplayGray2({NoFail})
    \/ DeepSleep({NoFail})
    \/ Return(FALSE)

SpecShow == Init /\ [][NextShow]_vars

\* C12: after any sequence of pixel writes, view switches, display
\* operations and deep sleeps, every row has, at every column both halves
\* hold, the same bit on the master path and on the slave path, in the
\* primary planes and in the secondary planes.
OverlapConsistent ==
    \A x \in OverlapCols, y \in 0..(Rows - 1) :
       /\ MasterPath(epd.buffer0, Pt(x, y)) = SlavePath(epd.buffer1, Pt(x, y))
       /\ MasterPath(epd.buffer2, Pt(x, y)) = SlavePath(epd.buffer3, Pt(x, y))

OverlapConsistentWitness ==
    /\ pc = "idle"
    /\ MasterPath(epd.buffer0, Pt(SlaveCol + 3, 0)) = Some(FALSE)
    /\ MasterPath(epd.buffer2, Pt(SlaveCol + 3, 0)) = Some(TRUE)
    /\ MasterPath(epd.buffer2, Pt(SlaveCol + 1, 0)) = Some(FALSE)
    /\ epd.state.init_for = Some("Partial")

\* The data bytes of a log that follow the first command `cmd`, up to the
\* next command: the bus writes made while the data/command line was high.
IsData(ev) == ev[1] = "spi" /\ ev[3] = TRUE

RECURSIVE Flatten(_)
Flatten(evs) == IF evs = <<>> THEN <<>> ELSE Head(evs)[2] \o Flatten(Tail(evs))

Sent(log, cmd) == \E i \in 1..Len(log) : IsCmd(log[i]) /\ log[i][2] = <<cmd>>

Payload(log, cmd) ==
    LET i == CHOOSE k \in 1..Len(log) :
                 /\ IsCmd(log[k]) /\ log[k][2] = <<cmd>>
                 /\ \A j \in 1..(k - 1) : ~(IsCmd(log[j]) /\ log[j][2] = <<cmd>>)
        later == {k \in (i + 1)..Len(log) : IsCmd(log[k])}
        nxt == IF later = {} THEN Len(log) + 1
               ELSE CHOOSE k \in later : \A j \in later : k <= j
    IN Flatten(SelectSeq(SubSeq(log, i + 1, nxt - 1), IsData))

\* C13: whenever display_binary_full or display_binary_fast pushes planes,
\* the payloads of 0x26 and 0xa6 are all zero and those of 0x24 and 0xa4
\* are the primary planes as drawn, whatever the secondary planes held; the
\* call leaves the secondary planes all zero and the primary planes alone.
FullFastPush ==
    (Returned({"display_binary_full", "display_binary_fast"})
       /\ Sent(call.log, \h24)) =>
       /\ epd.buffer2 = Fill(0) /\ epd.buffer3 = Fill(0)
       /\ epd.buffer0 = pre.buffer0 /\ epd.buffer1 = pre.buffer1
       /\ call.res = "Ok" =>
             /\ Payload(call.log, \h24) = AsSlice(pre.buffer0)
             /\ Payload(call.log, \hA4) = AsSlice(pre.buffer1)
             /\ Payload(call.log, \h26) = AsSlice(Fill(0))
             /\ Payload(call.log, \hA6) = AsSlice(Fill(0))

FullFastPushWitness ==
    /\ Returned({"display_binary_fast"})
    /\ call.res = "Ok"
    /\ pre.buffer0 # Fill(255)
    /\ pre.buffer3 \notin {Fill(0), Fill(255), pre.buffer1}

\* C20: the partial init copies each primary plane verbatim into the
\* secondary plane of the same half and pushes 0x26 and 0xA6, with those
\* copies as payloads, before the display call pushes any primary plane
\* (0x24, 0xA4); display_binary_partial on a panel already initialized for
\* Partial pushes only 0x24 and 0xA4 and changes none of the four planes.
PartialInit ==
    /\ (Returned({"display_binary_partial"}) /\ call.res = "Ok"
          /\ ~is_ready_for(call.st, "Partial")) =>
          /\ epd.buffer2 = pre.buffer0 /\ epd.buffer3 = pre.buffer1
          /\ epd.buffer0 = pre.buffer0 /\ epd.buffer1 = pre.buffer1
          /\ Payload(call.log, \h26) = AsSlice(pre.buffer0)
          /\ Payload(call.log, \hA6) = AsSlice(pre.buffer1)
          /\ Payload(call.log, \h24) = AsSlice(pre.buffer0)
          /\ Payload(call.log, \hA4) = AsSlice(pre.buffer1)
          /\ Count(Cmds(call.log), \h26) = 1 /\ Count(Cmds(call.log), \hA6) = 1
          /\ \A i, j \in 1..Len(Cmds(call.log)) :
                (Cmds(call.log)[i] \in {\h26, \hA6}
                   /\ Cmds(call.log)[j] \in {\h24, \hA4}) => i < j
    /\ (Returned({"display_binary_partial"})
          /\ is_ready_for(call.st, "Partial")) =>
          /\ IsPrefix(Cmds(call.log), <<\h24, \hA4, \h22, \h20>>)
          /\ call.res = "Ok" =>
                /\ Cmds(call.log) = <<\h24, \hA4, \h22, \h20>>
                /\ Payload(call.log, \h24) = AsSlice(pre.buffer0)
                /\ Payload(call.log, \hA4) = AsSlice(pre.buffer1)
          /\ epd.buffer0 = pre.buffer0 /\ epd.buffer1 = pre.buffer1
          /\ epd.buffer2 = pre.buffer2 /\ epd.buffer3 = pre.buffer3

PartialInitWitness ==
    /\ Returned({"display_binary_partial"}) /\ call.res = "Ok"
    /\ ~is_ready_for(call.st, "Partial")
    /\ pre.buffer2 # pre.buffer0 /\ pre.buffer3 # pre.buffer1
    /\ pre.buffer0 # pre.buffer1

\* ------------------------------------------------------------------------
\* SpecBusy: wait_busy_timeout, one statement at a time
\* ------------------------------------------------------------------------

\* The largest poll step and the largest timeout, in clock units.
MaxStep == 2
MaxTimeout == 3

\* The latest busy read at which the line goes low again, the latest read
\* that fails, and the most the scheduler adds to a delay.
MaxClear == 4
MaxReadFail == 3
MaxOversleep == 1

\* No run of the loop polls more often than this.
PollCap == MaxTimeout + 3

\* The machine a wait runs on: the line reads high from the first read on
\* if `high`, low again from read clearAt on, and read failAt fails.
BusyMachine(high, clearAt, failAt, oversleep) ==
    [Machine([failAt |-> failAt, stuckAt |-> IF high THEN 1 ELSE 0], FALSE)
        EXCEPT !.clearAt = clearAt, !.oversleep = oversleep]

\* wait_busy_timeout(delay, timeout) is entered: `let now = Instant::now()`.
WbtCall ==
    /\ Idle
    /\ \E step \in 0..MaxStep, timeout \in 0..MaxTimeout, high \in BOOLEAN,
          clearAt \in {0} \cup 2..MaxClear, failAt \in 0..MaxReadFail,
          oversleep \in 0..MaxOversleep :
          call' = [op |-> "wait_busy_timeout", at |-> "first_read",
                   step |-> DelayUs(step), delay |-> DelayUs(step),
                   timeout |-> timeout,
                   high |-> high, clearAt |-> clearAt, failAt |-> failAt,
                   m0 |-> BusyMachine(high, clearAt, failAt, oversleep),
                   m |-> BusyMachine(high, clearAt, failAt, oversleep)]
    /\ pc' = "waiting"
    /\ pre' = epd
    /\ UNCHANGED <<epd, pins, has_cs, views, life, build, hist>>

\* The call returns with the machine m: its record, with the result of
\* the operator wait_busy_timeout on the same machine beside it.
WbtDone(m) ==
    /\ call' = [op |-> "wait_busy_timeout", at |-> "done",
                 step |-> call.step, delay |-> call.delay,
                 timeout |-> call.timeout,
                 high |-> call.high, clearAt |-> call.clearAt,
                 failAt |-> call.failAt, m0 |-> call.m0, m |-> m,
                 res |-> m.err, tinfo |-> m.tinfo, log |-> m.log,
                 ret |-> wait_busy_timeout(call.m0, call.step, call.timeout)]
    /\ pc' = "returned"

\* `if !self.is_busy()? { return Ok(now.elapsed()); }` and
\* `let delay = delay.max_one();`
WbtFirstRead ==
    /\ pc = "waiting" /\ call.at = "first_read"
    /\ LET m1 == is_busy(call.m)
       IN IF ~OkM(m1) \/ ~m1.busy THEN WbtDone(m1)
          ELSE /\ call' = [call EXCEPT !.m = m1, !.at = "loop_test",
                                       !.delay = max_one(call.step)]
               /\ pc' = pc
    /\ UNCHANGED <<epd, pins, has_cs, views, life, build, pre, hist>>

\* `while now.elapsed() < timeout`, and the Err(TimeOutError { .. }) after
\* the loop.
WbtLoopTest ==
    /\ pc = "waiting" /\ call.at = "loop_test"
    /\ IF call.m.clock - call.m0.clock < call.timeout
       THEN /\ call' = [call EXCEPT !.at = "loop_body"]
            /\ pc' = pc
       ELSE WbtDone([call.m EXCEPT !.err = "TimeOut",
                        !.tinfo = [timeout |-> call.timeout,
                                   elapsed |-> call.m.clock - call.m0.clock]])
    /\ UNCHANGED <<epd, pins, has_cs, views, life, build, pre, hist>>

\* `self.delay(delay); if !self.is_busy()? { return Ok(now.elapsed()); }`
WbtLoopBody ==
    /\ pc = "waiting" /\ call.at = "loop_body"
    /\ call.m.nbusy < PollCap
    /\ LET m1 == is_busy(delay(call.m, call.delay))
       IN IF ~OkM(m1) \/ ~m1.busy THEN WbtDone(m1)
          ELSE /\ call' = [call EXCEPT !.m = m1, !.at = "loop_test"]
               /\ pc' = pc
    /\ UNCHANGED <<epd, pins, has_cs, views, life, build, pre, hist>>

NextBusy ==
    \/ WbtCall
    \/ WbtFirstRead
    \/ WbtLoopTest
    \/ WbtLoopBody
    \/ Return(FALSE)

\* The thread that entered the call keeps running.
SpecBusy == Init /\ [][NextBusy]_vars /\ WF_vars(NextBusy)

\* The busy line reads busy at every poll of the call, and no read fails.
AlwaysBusy == call.high /\ call.clearAt = 0 /\ call.failAt = 0

\* C14: if the busy line reads busy at every poll, wait_busy_timeout
\* returns a TimeOutError whose timeout is the configured one and whose
\* elapsed is at least the timeout, for every step and every timeout,
\* zero included.
TimeoutReported ==
    (Returned({"wait_busy_timeout"}) /\ AlwaysBusy) =>
       /\ call.ret.err = "TimeOut"
       /\ call.ret.tinfo.timeout = call.timeout
       /\ call.ret.tinfo.elapsed >= call.timeout

TimeoutZeroWitness ==
    /\ Returned({"wait_busy_timeout"}) /\ AlwaysBusy
    /\ call.timeout = 0
    /\ call.step.n = 0

\* What a finished wait returns: Ok only if its last read of the busy
\* line was low, and the same as the operator wait_busy_timeout.
WbtResult ==
    Returned({"wait_busy_timeout"}) =>
       /\ call.res \in {"Ok", "TimeOut", "Transport"}
       /\ call.res = "Ok" =>
             /\ call.log # <<>>
             /\ call.log[Len(call.log)] = <<"busy", FALSE>>
       /\ call.ret = call.m

\* C15: wait_busy_timeout always terminates, for every poll step, zero
\* included, and every timeout, each delay advancing the clock by at least
\* one unit: a call that was entered returns, with Ok, the timeout error
\* or a read's error, and with Ok only if its last read of the busy line
\* was low.
WaitTerminates ==
    /\ [](WbtResult)
    /\ (pc = "waiting") ~> (pc = "returned")

WaitTerminatesWitness ==
    /\ pc = "waiting" /\ call.at = "loop_body"
    /\ call.step = DelayUs(1) /\ call.m0.oversleep = 0
    /\ call.m.clock = MaxTimeout - 1
    /\ call.timeout = MaxTimeout
    /\ call.high /\ call.clearAt = 0

\* C16: the public wait_busy, called while the panel is asleep, returns
\* the deep-sleep error without reading the busy line: no bus transfer, no
\* pin write, and the driver's state and planes are as they were.
WaitBusyAsleep ==
    (Returned({"wait_busy"}) /\ is_deepsleep(call.st)) =>
       /\ call.res = "DeepSleep"
       /\ call.log = <<>>
       /\ epd = pre

WaitBusyAsleepWitness ==
    /\ Returned({"wait_busy"}) /\ is_deepsleep(call.st)
    /\ hist.op = "deep_sleep" /\ hist.res = "Ok"
    /\ call.res = "DeepSleep"

\* C17: dropping the driver while the panel is awake issues 0x10 [0x03],
\* then drives power low and reset low; dropping it while the panel is
\* asleep issues nothing; a transport error during the teardown cuts it
\* short and is never propagated.
DropTeardown ==
    Returned({"drop"}) =>
       /\ call.res = "Ok"
       /\ is_deepsleep(call.st) => (call.log = <<>> /\ epd = pre)
       /\ ~is_deepsleep(call.st) =>
             /\ IsPrefix(call.log, SleepLog)
             /\ call.inner = "Ok" =>
                   /\ call.log = SleepLog
                   /\ is_deepsleep(epd.state)
                   /\ ~pins.pwr /\ ~pins.rst
             /\ call.inner # "Ok" => Len(call.log) < Len(SleepLog)

DropTeardownWitness ==
    /\ Returned({"drop"})
    /\ ~is_deepsleep(call.st)
    /\ call.inner = "Transport"
    /\ Cmds(call.log) = <<\h10>>

\* The pin writes and delays that wake the panel: power high, then reset
\* high, low, high with a delay after each edge.
WakeLog ==
    << <<"pwr", TRUE>>,
       <<"rst", TRUE>>, <<"delay", HoldUs>>,
       <<"rst", FALSE>>, <<"delay", HoldUs>>,
       <<"rst", TRUE>>, <<"delay", HoldUs>> >>

\* The busy wait that follows the reset pulse has ended with a low read.
WakeWaitOk(log) ==
    \E p \in (Len(WakeLog) + 1)..Len(log) :
       /\ log[p] = <<"busy", FALSE>>
       /\ \A q \in (Len(WakeLog) + 1)..(p - 1) : log[q][1] \in {"busy", "delay"}

\* C18: a display operation entered with the panel asleep first drives
\* power high, then reset high, low, high with a delay after each edge,
\* then waits for the busy line, and records power_on only when that wait
\* has succeeded; all of this precedes the software reset 0x12, the first
\* command. A display operation entered with the panel awake writes
\* neither the reset nor the power line.
WakeOrder ==
    /\ (Returned(DisplayOps) /\ is_deepsleep(call.st)) =>
          /\ IsPrefix(call.log, WakeLog) \/ IsPrefix(WakeLog, call.log)
          /\ (epd.state.power_on # None) <=> WakeWaitOk(call.log)
          /\ \A i \in 1..Len(call.log) :
                call.log[i][1] \in {"spi", "dc", "cs"} =>
                   /\ i > Len(WakeLog) + 1
                   /\ WakeWaitOk(SubSeq(call.log, 1, i - 1))
          /\ Cmds(call.log) # <<>> => Cmds(call.log)[1] = \h12
          /\ call.res = "Ok" => Cmds(call.log) # <<>>
    /\ (Returned(DisplayOps) /\ ~is_deepsleep(call.st)) =>
          \A i \in 1..Len(call.log) : call.log[i][1] \notin {"rst", "pwr"}

WakeOrderWitness ==
    /\ Returned({"display_binary_partial"})
    /\ is_deepsleep(call.st)
    /\ call.res = "TimeOut"
    /\ call.log # <<>> /\ Cmds(call.log) = <<>>
    /\ epd.state.power_on = None

\* The accesses of one command byte and of one payload that fits in one
\* chunk, on a panel wired without chip select.
CmdEv(cmd) == << <<"dc", FALSE>>, <<"spi", <<cmd>>, FALSE>> >>

DataEv(bytes) == << <<"dc", TRUE>>, <<"spi", bytes, TRUE>> >>

\* The value 0x22 carries in each display operation.
ModeValue(op) ==
    CASE op = "display_gray2" -> \hCF
      [] op = "display_binary_full" -> \hF7
      [] op = "display_binary_fast" -> \hC7
      [] op = "display_binary_partial" -> \hFF

\* The refresh a display operation ends with: the plane pushes of the
\* planes of e, the mode, the trigger, the settle delay and a busy wait
\* that finds the line low.
RefreshTail(op, e) ==
    (IF op = "display_binary_partial"
     THEN CmdEv(\h24) \o DataEv(AsSlice(e.buffer0))
          \o CmdEv(\hA4) \o DataEv(AsSlice(e.buffer1))
     ELSE CmdEv(\h24) \o DataEv(AsSlice(e.buffer0))
          \o CmdEv(\h26) \o DataEv(AsSlice(e.buffer2))
          \o CmdEv(\hA4) \o DataEv(AsSlice(e.buffer1))
          \o CmdEv(\hA6) \o DataEv(AsSlice(e.buffer3)))
    \o CmdEv(\h22) \o DataEv(<<ModeValue(op)>>)
    \o CmdEv(\h20)
    \o << <<"delay", HoldUs>>, <<"busy", FALSE>> >>

\* The display operation op on the machine m.
RunOp(op, m) ==
    CASE op = "display_gray2" -> display_gray2(m)
      [] op = "display_binary_full" -> display_binary_full(m)
      [] op = "display_binary_fast" -> display_binary_fast(m)
      [] op = "display_binary_partial" -> display_binary_partial(m)

\* The accesses the returned call would have made from its entry state on
\* hardware that never fails (the log does not depend on the pins' levels
\* at entry).
UnfailedLog ==
    RunOp(call.op, [Machine(NoFail, FALSE) EXCEPT !.epd = [pre EXCEPT !.state = Age(@)]]).log

\* The accesses of a busy wait that times out.
TimeOutLog == << <<"busy", TRUE>>, <<"delay", PollStepUs>>, <<"busy", TRUE>> >>

Suffix(log, n) == SubSeq(log, Len(log) - n + 1, Len(log))

Front(log, n) == SubSeq(log, 1, Len(log) - n)

\* C19: every display operation, after its init if any, pushes the planes
\* (0x24, 0x26, 0xA4, 0xA6; 0x24, 0xA4 for partial), then sends 0x22 with
\* the mode value (0xCF gray, 0xF7 full, 0xC7 fast, 0xFF partial), then
\* 0x20, then makes the settle delay and waits for the busy line; it
\* returns Ok only if that wait succeeded, and a failure at any step ends
\* the call there and is returned.
RefreshOrder ==
    Returned(DisplayOps) =>
       /\ call.res = "Ok" =>
             /\ Len(call.log) >= Len(RefreshTail(call.op, epd))
             /\ Suffix(call.log, Len(RefreshTail(call.op, epd)))
                   = RefreshTail(call.op, epd)
             /\ Cmds(Front(call.log, Len(RefreshTail(call.op, epd))))
                   = IF is_ready_for(call.st, ModeOf(call.op))
                     THEN <<>> ELSE InitCmds(call.op)
             /\ call.log = UnfailedLog
       /\ call.res \in {"Transport", "Panic"} =>
             /\ IsPrefix(call.log, UnfailedLog)
             /\ Len(call.log) < Len(UnfailedLog)
       /\ call.res = "TimeOut" =>
             /\ Len(call.log) >= Len(TimeOutLog)
             /\ Suffix(call.log, Len(TimeOutLog)) = TimeOutLog
             /\ IsPrefix(Append(Front(call.log, Len(TimeOutLog)), <<"busy", FALSE>>),
                         UnfailedLog)
       /\ call.res \in {"Ok", "Transport", "TimeOut", "Panic"}

RefreshOrderWitness ==
    /\ Returned({"display_gray2"})
    /\ call.res = "TimeOut"
    /\ Count(Cmds(call.log), \h20) = 1

\* The bits a colour returned by get_binary or get_gray stands for.
BwOf(color) == IF call.op = "get_binary" THEN color = "On" ELSE color \in {1, 3}
ROf(color) == color \in {2, 3}

\* The returned colour is the one the master half's planes hold.
ReadFromMaster ==
    /\ call.half = "master"
    /\ Some(BwOf(call.ret[1])) = MasterPath(epd.buffer0, call.point)
    /\ call.op = "get_gray" =>
          Some(ROf(call.ret[1])) = MasterPath(epd.buffer2, call.point)

\* The returned colour is the one the slave half's planes hold.
ReadFromSlave ==
    /\ call.half = "slave"
    /\ Some(BwOf(call.ret[1])) = SlavePath(epd.buffer1, call.point)
    /\ call.op = "get_gray" =>
          Some(ROf(call.ret[1])) = SlavePath(epd.buffer3, call.point)

SwResetAt(log, i) == IsCmd(log[i]) /\ log[i][2] = <<\h12>>

HasReset(log) ==
    \E i \in 1..Len(log) : SwResetAt(log, i) \/ log[i][1] = "rst"

\* The software reset of the log and the busy wait after it succeeded.
SwResetOk(log) ==
    \E i \in 1..Len(log) :
       /\ SwResetAt(log, i)
       /\ \E p \in (i + 1)..Len(log) :
             /\ log[p] = <<"busy", FALSE>>
             /\ \A q \in (i + 1)..(p - 1) : log[q][1] \in {"busy", "delay"}

\* The accesses of the returned call's init sequence, had nothing failed:
\* those of the whole call less its refresh.
InitLog ==
    SubSeq(UnfailedLog, 1, Len(UnfailedLog) - Len(RefreshTail(call.op, epd)))

\* The returned call went through its whole init sequence.
InitCompleted ==
    /\ ~is_ready_for(call.st, ModeOf(call.op))
    /\ IsPrefix(InitLog, call.log)

\* C24: in every state where the panel is recorded awake and init_for is
\* Some(m), no software reset and no hardware reset has been sent to the
\* panel since m's init sequence completed, also when a display operation
\* failed during its software reset or the busy wait after it: a call that
\* has reset the panel and leaves it awake with init_for = Some(m) is a
\* call of m's display operation that completed the init after the reset.
NoResetSinceInit ==
    (Returned(DisplayOps) /\ HasReset(call.log)
       /\ ~is_deepsleep(epd.state) /\ epd.state.init_for # None) =>
       /\ epd.state.init_for = Some(ModeOf(call.op))
       /\ InitCompleted

\* C25: init_for is set to Some(m) only as the last step of m's init
\* sequence, after every command and busy wait of it succeeded; a display
\* operation that fails after its software reset succeeded and before its
\* init completed leaves init_for at None, and a display operation entered
\* with init_for at None, in any mode, starts with the software reset and
\* runs the whole init.
InitFlagLast ==
    /\ (Returned(DisplayOps) /\ SwResetOk(call.log)) =>
          epd.state.init_for = IF InitCompleted THEN Some(ModeOf(call.op)) ELSE None
    /\ (Returned(DisplayOps) /\ ~SwResetOk(call.log)) =>
          /\ epd.state.init_for = call.st.init_for
          /\ ~InitCompleted
    /\ (Returned(DisplayOps) /\ call.st.init_for = None) =>
          /\ IsPrefix(Cmds(call.log), InitCmds(call.op) \o PushCmds(call.op))
          /\ Cmds(call.log) # <<>> => Cmds(call.log)[1] = \h12
          /\ call.res = "Ok" => InitCompleted

InitFlagLastWitness ==
    /\ Returned({"display_gray2"})
    /\ hist.op = "display_binary_fast" /\ hist.res = "Transport"
    /\ call.st.init_for = None /\ ~is_deepsleep(call.st)
    /\ call.res = "Ok"

\* C26: after any operation returns, with Ok or with an error, if the
\* panel is recorded asleep (power_on is None) then the power line is low.
AsleepImpliesPowerLow ==
    is_deepsleep(epd.state) => ~pins.pwr

\* ------------------------------------------------------------------------
\* SpecSpi: command, data and command_data of the transport, with and
\* without a chip-select pin, on hardware that may fail
\* ------------------------------------------------------------------------

\* The longest payload, the largest chunk size and the latest access that
\* fails.
MaxPayload == 3
MaxChunk == 2
MaxSpiFail == 6

SpiCmds == {\h12, \h24}
SpiBytes == {\h00, \hA5}

\* The payloads of at most MaxPayload bytes.
Payloads == UNION {[1..n -> SpiBytes] : n \in 0..MaxPayload}

SpiEnvs == {[failAt |-> k, stuckAt |-> 0] : k \in 0..MaxSpiFail}

SpiOps == {"command", "data", "command_data"}

\* SpiInterface::new(.., cs_pin, ..): wired with or without chip select.
InitSpi ==
    /\ epd = NewImpl
    /\ pins = LowPins
    /\ has_cs \in BOOLEAN
    /\ views = <<>>
    /\ life = "alive"
    /\ build = "unknown"
    /\ pc = "idle"
    /\ call = NoCall
    /\ pre = <<>>
    /\ hist = NoHist

\* The call has run on the machine m; `full` is the machine of the same
\* call on hardware that does not fail, which names the access that failed.
SpiCommit(name, cmd, payload, chunk_size, m, full) ==
    /\ pins' = m.pins
    /\ call' = [op |-> name, cmd |-> cmd, payload |-> payload,
                chunk_size |-> chunk_size, res |-> m.err, log |-> m.log,
                pins0 |-> pins,
                failed |-> IF OkM(m) THEN "none"
                           ELSE full.log[Len(m.log) + 1][1]]
    /\ pre' = epd
    /\ pc' = "returned"
    /\ UNCHANGED <<epd, has_cs, views, life, build, hist>>

\* spi_interface.command(cmd)
SpiCommand ==
    /\ Idle
    /\ \E cmd \in SpiCmds, env \in SpiEnvs :
          SpiCommit("command", cmd, <<>>, 0,
                    command(Machine(env, FALSE), cmd),
                    command(Machine(NoFail, FALSE), cmd))

\* spi_interface.data(payload, chunk_size)
SpiData ==
    /\ Idle
    /\ \E payload \in Payloads, chunk_size \in 0..MaxChunk, env \in SpiEnvs :
          SpiCommit("data", 0, payload, chunk_size,
                    data(Machine(env, FALSE), payload, chunk_size),
                    data(Machine(NoFail, FALSE), payload, chunk_size))

\* spi_interface.command_data(cmd, payload, chunk_size)
SpiCommandData ==
    /\ Idle
    /\ \E cmd \in SpiCmds, payload \in Payloads, chunk_size \in 0..MaxChunk,
          env \in SpiEnvs :
          SpiCommit("command_data", cmd, payload, chunk_size,
                    command_data(Machine(env, FALSE), cmd, payload, chunk_size),
                    command_data(Machine(NoFail, FALSE), cmd, payload, chunk_size))

NextSpi ==
    \/ SpiCommand
    \/ SpiData
    \/ SpiCommandData
    \/ Return(FALSE)

SpecSpi == InitSpi /\ [][NextSpi]_vars

\* The chip-select write of a transfer, if the pin is wired.
CsEv(level) == IF has_cs THEN << <<"cs", level>> >> ELSE <<>>

\* The accesses of a successful command(cmd).
CommandLog(cmd) ==
    CsEv(TRUE) \o << <<"dc", FALSE>>, <<"spi", <<cmd>>, FALSE>> >> \o CsEv(FALSE)

\* A log is the accesses of a successful data(..) with a non-empty
\* payload: chip select, data/command high, bus writes, chip-select release.
IsDataLog(log) ==
    /\ Len(log) >= 2 + 2 * Len(CsEv(TRUE))
    /\ SubSeq(log, 1, Len(CsEv(TRUE)) + 1) = CsEv(TRUE) \o << <<"dc", TRUE>> >>
    /\ Suffix(log, Len(CsEv(FALSE))) = CsEv(FALSE)
    /\ \A i \in (Len(CsEv(TRUE)) + 2)..(Len(log) - Len(CsEv(FALSE))) : IsData(log[i])

\* Every bus write of the log is made with chip select asserted.
WritesSelected(log) ==
    \A i \in 1..Len(log) :
       (log[i][1] = "spi" /\ has_cs) =>
          \E j \in 1..(i - 1) :
             /\ log[j] = <<"cs", TRUE>>
             /\ \A k \in (j + 1)..(i - 1) : log[k][1] # "cs"

\* C21: every successful command(byte) is chip-select assert,
\* data/command low, one bus write of that byte, chip-select deassert;
\* every successful data(payload) with a non-empty payload is chip-select
\* assert, data/command high, the chunk writes, chip-select deassert;
\* command_data(c, d) is command(c) followed by data(d); so no bus write
\* happens while chip select, when present, is deasserted.
Bracketing ==
    Returned(SpiOps) =>
       /\ (call.op = "command" /\ call.res = "Ok") =>
             call.log = CommandLog(call.cmd)
       /\ (call.op = "data" /\ call.res = "Ok" /\ call.payload # <<>>) =>
             IsDataLog(call.log)
       /\ (call.op = "command_data" /\ call.res = "Ok") =>
             /\ IsPrefix(CommandLog(call.cmd), call.log)
             /\ \/ call.payload = <<>> /\ call.log = CommandLog(call.cmd)
                \/ /\ call.payload # <<>>
                   /\ IsDataLog(SubSeq(call.log, Len(CommandLog(call.cmd)) + 1,
                                       Len(call.log)))
       /\ WritesSelected(call.log)

BracketingWitness ==
    /\ Returned({"command_data"})
    /\ has_cs
    /\ call.res = "Ok"
    /\ Len(call.payload) = MaxPayload /\ call.chunk_size = 1

\* The bus writes of the data phase of a log, and the chunk size in force.
DataWrites(log) == SelectSeq(log, IsData)

ChunkLimit == IF call.chunk_size < 1 THEN 1 ELSE call.chunk_size

\* C22: data(payload, chunk_size) with an empty payload makes no
\* chip-select, data/command or bus access; with a non-empty payload every
\* bus write is non-empty and at most max(chunk_size, 1) bytes long, and
\* the writes in order make up the payload (a chunk_size of 0 behaves
\* as 1).
Chunking ==
    Returned({"data"}) =>
       /\ call.payload = <<>> =>
             (call.log = <<>> /\ call.res = "Ok" /\ pins = call.pins0)
       /\ \A i \in 1..Len(DataWrites(call.log)) :
             /\ Len(DataWrites(call.log)[i][2]) >= 1
             /\ Len(DataWrites(call.log)[i][2]) <= ChunkLimit
       /\ IsPrefix(Flatten(DataWrites(call.log)), call.payload)
       /\ call.res = "Ok" => Flatten(DataWrites(call.log)) = call.payload

ChunkingWitness ==
    /\ Returned({"data"})
    /\ call.res = "Ok"
    /\ call.chunk_size = 0
    /\ Len(call.payload) = MaxPayload
    /\ Len(DataWrites(call.log)) = MaxPayload

\* C27: after command, data or command_data returns, with Ok or with a
\* transport error from the data/command line or the bus write, the
\* chip-select line, when present, is deasserted.
CsReleased ==
    (Returned(SpiOps) /\ has_cs /\ call.failed \in {"none", "dc", "spi"}) =>
       ~pins.cs

====
